---- MODULE Spec2Model ----
(***************************************************************************)
(* Chat subsystem of tokligence-gateway-npm: the conversation loop of      *)
(* lib/chat/index.js (ChatSession), the tool executor of lib/chat/agent.js *)
(* and the redaction helpers documented in CURRENT_STATUS.md.              *)
(*                                                                         *)
(* A JavaScript string is modelled as a sequence of one-character strings, *)
(* so that concatenation, slicing, substring search, JSON.stringify and    *)
(* JSON.parse are computed character by character.                         *)
(***************************************************************************)
EXTENDS Integers, Sequences, FiniteSets, TLC

\* ------------------------------------------------------------------------
\* Bounds of the model
\* ------------------------------------------------------------------------
MaxLines == 2
MaxToolTurns == 5
MaxTypeAheadToolTurns == 1
MaxVariedTurns == 1
MaxValLen == 5
MaxFragments == 3
MaxPasses == 2
MaxChecks == 2
MaxWaits == 2
MaxParts == 3
MaxRetries == 4

\* ------------------------------------------------------------------------
\* String literals of the source, one character per element
\* ------------------------------------------------------------------------
s_key == <<"k", "e", "y">>
s_value == <<"v", "a", "l", "u", "e">>
s_api_key == <<"a", "p", "i", "_", "k", "e", "y">>
s_port == <<"p", "o", "r", "t">>
s_success == <<"s", "u", "c", "c", "e", "s", "s">>
s_true == <<"t", "r", "u", "e">>
s_false == <<"f", "a", "l", "s", "e">>
s_null == <<"n", "u", "l", "l">>
s_message == <<"m", "e", "s", "s", "a", "g", "e">>
s_platform == <<"p", "l", "a", "t", "f", "o", "r", "m">>
s_linux == <<"l", "i", "n", "u", "x">>
s_config == <<"c", "o", "n", "f", "i", "g">>
s_error == <<"e", "r", "r", "o", "r">>
s_note == <<"n", "o", "t", "e">>
s_set_config == <<"s", "e", "t", "_", "c", "o", "n", "f", "i", "g">>
s_get_config == <<"g", "e", "t", "_", "c", "o", "n", "f", "i", "g">>
s_exit == <<"e", "x", "i", "t">>
s_quit == <<"q", "u", "i", "t">>
s_updated == <<"C", "o", "n", "f", "i", "g", "u", "r", "a", "t", "i", "o", "n", " ", "u", "p", "d", "a", "t", "e", "d", ":", " ">>
s_eq == <<" ", "=", " ">>
s_unknown == <<"U", "n", "k", "n", "o", "w", "n", " ", "t", "o", "o", "l", ":", " ">>
s_notfound == <<"C", "o", "n", "f", "i", "g", "u", "r", "a", "t", "i", "o", "n", " ", "k", "e", "y", " ", "n", "o", "t", " ", "f", "o", "u", "n", "d", ":", " ">>
s_redacted == <<"*", "*", "*", "r", "e", "d", "a", "c", "t", "e", "d", "*", "*", "*", " ", "(", "l", "e", "n", "=">>
s_prefix == <<",", " ", "p", "r", "e", "f", "i", "x", "=">>
s_rparen == <<")">>
s_google == <<"g", "o", "o", "g", "l", "e", "_">>
s_nofile == <<"C", "o", "n", "f", "i", "g", "u", "r", "a", "t", "i", "o", "n", " ", "f", "i", "l", "e", " ", "n", "o", "t", " ", "f", "o", "u", "n", "d">>
s_undefined == <<"u", "n", "d", "e", "f", "i", "n", "e", "d">>
s_not_found == <<"n", "o", "t", " ", "f", "o", "u", "n", "d">>
s_permission == <<"p", "e", "r", "m", "i", "s", "s", "i", "o", "n">>
s_eacces == <<"e", "a", "c", "c", "e", "s">>
s_enoent == <<"e", "n", "o", "e", "n", "t">>
s_eaddrinuse == <<"e", "a", "d", "d", "r", "i", "n", "u", "s", "e">>
s_note_perm == <<"T", "r", "y", " ", "r", "u", "n", "n", "i", "n", "g", " ", "w", "i", "t", "h", " ", "s", "u", "d", "o", " ", "o", "r", " ", "c", "h", "e", "c", "k", " ", "f", "i", "l", "e", " ", "p", "e", "r", "m", "i", "s", "s", "i", "o", "n", "s">>
s_note_path1 == <<"C", "h", "e", "c", "k", " ", "p", "a", "t", "h", "s", " ", "i", "n", " ">>
s_note_path2 == <<"/", ".", "t", "o", "k", "l", "i", "g", "e", "n", "c", "e", "/">>
s_note_port == <<"C", "h", "e", "c", "k", " ", "i", "f", " ", "a", "n", "o", "t", "h", "e", "r", " ", "p", "r", "o", "c", "e", "s", "s", " ", "i", "s", " ", "u", "s", "i", "n", "g", " ", "t", "h", "e", " ", "p", "o", "r", "t", " ", "(", "u", "s", "e", " ", "l", "s", "o", "f", " ", "-", "i", ")">>
s_nope == <<"n", "o", "p", "e">>
s_sk_old == <<"s", "k", "-", "o", "l", "d">>
s_sk_new == <<"s", "k", "-", "n", "e", "w", "1">>
s_hi == <<"h", "i">>
s_ok == <<"o", "k">>
s_call_a == <<"c", "a", "l", "l", "_", "a">>
s_call_b == <<"c", "a", "l", "l", "_", "b">>
s_toolu == <<"t", "o", "o", "l", "u", "_", "1">>
s_sys == <<"s", "y", "s">>

\* ------------------------------------------------------------------------
\* String primitives of JavaScript used by the source
\* ------------------------------------------------------------------------

\* String.prototype.slice(0, n)
Slice0(s, n) == SubSeq(s, 1, IF Len(s) < n THEN Len(s) ELSE n)

\* String.prototype.includes(p)
Includes(s, p) ==
  \E i \in 1..(Len(s) - Len(p) + 1) : SubSeq(s, i, i + Len(p) - 1) = p

LowerChar(c) ==
  CASE c = "A" -> "a" [] c = "B" -> "b" [] c = "C" -> "c" [] c = "D" -> "d"
    [] c = "E" -> "e" [] c = "F" -> "f" [] c = "G" -> "g" [] c = "H" -> "h"
    [] c = "I" -> "i" [] c = "J" -> "j" [] c = "K" -> "k" [] c = "L" -> "l"
    [] c = "M" -> "m" [] c = "N" -> "n" [] c = "O" -> "o" [] c = "P" -> "p"
    [] c = "Q" -> "q" [] c = "R" -> "r" [] c = "S" -> "s" [] c = "T" -> "t"
    [] c = "U" -> "u" [] c = "V" -> "v" [] c = "W" -> "w" [] c = "X" -> "x"
    [] c = "Y" -> "y" [] c = "Z" -> "z"
    [] OTHER -> c

\* String.prototype.toLowerCase()
ToLowerCase(s) == [i \in 1..Len(s) |-> LowerChar(s[i])]

RECURSIVE TrimStart(_)
TrimStart(s) ==
  IF s # <<>> /\ Head(s) = " " THEN TrimStart(Tail(s)) ELSE s

RECURSIVE TrimEnd(_)
TrimEnd(s) ==
  IF s # <<>> /\ s[Len(s)] = " " THEN TrimEnd(SubSeq(s, 1, Len(s) - 1)) ELSE s

\* trimStart() in place of trim()
TrimLeading(s) == TrimStart(s)

\* String.prototype.trim()
Trim(s) == TrimEnd(TrimStart(s))

Digit(d) ==
  CASE d = 0 -> "0" [] d = 1 -> "1" [] d = 2 -> "2" [] d = 3 -> "3"
    [] d = 4 -> "4" [] d = 5 -> "5" [] d = 6 -> "6" [] d = 7 -> "7"
    [] d = 8 -> "8" [] d = 9 -> "9"

\* Template-literal formatting of a non-negative integer: decimal digits
RECURSIVE NumToString(_)
NumToString(n) ==
  IF n < 10 THEN <<Digit(n)>> ELSE NumToString(n \div 10) \o <<Digit(n % 10)>>

\* ------------------------------------------------------------------------
\* Redaction policy (agent.js as documented in CURRENT_STATUS.md)
\* ------------------------------------------------------------------------
SensitivePatterns ==
  { <<"a", "p", "i", "_", "k", "e", "y">>,
    <<"a", "p", "i", "k", "e", "y">>,
    <<"s", "e", "c", "r", "e", "t">>,
    <<"t", "o", "k", "e", "n">>,
    <<"p", "a", "s", "s", "w", "o", "r", "d">>,
    <<"p", "a", "s", "s", "p", "h", "r", "a", "s", "e">>,
    <<"c", "r", "e", "d", "e", "n", "t", "i", "a", "l">>,
    <<"a", "u", "t", "h", "_", "k", "e", "y">>,
    <<"e", "m", "a", "i", "l">>,
    <<"d", "i", "s", "p", "l", "a", "y", "_", "n", "a", "m", "e">>,
    <<"a", "d", "m", "i", "n", "_", "e", "m", "a", "i", "l">>,
    <<"n", "a", "m", "e">> }

\* The match without lower-casing the key
isSensitiveConfigKeyCased(key) ==
  IF key = <<>> THEN FALSE
  ELSE \E p \in SensitivePatterns : Includes(key, p)

isSensitiveConfigKey(key) ==
  IF key = <<>> THEN FALSE
  ELSE \E p \in SensitivePatterns : Includes(ToLowerCase(key), p)

PrefixLen == 4

maskSensitiveValue(value) ==
  IF value = <<>> THEN <<>>
  ELSE s_redacted \o NumToString(Len(value)) \o s_prefix
         \o Slice0(value, PrefixLen) \o s_rparen

\* ------------------------------------------------------------------------
\* JSON text.  A JavaScript object is a sequence of entries in insertion
\* order.  An argument object holds string members [k, v]; a tool result
\* holds entries [k, t, v, o] with t = "str" (string v), "lit" (true, false
\* or null, spelled in v) or "obj" (nested object o of string members).
\* ------------------------------------------------------------------------
RECURSIVE EscapeChars(_)
EscapeChars(s) ==
  IF s = <<>> THEN <<>>
  ELSE (IF Head(s) = "\"" \/ Head(s) = "\\" THEN <<"\\", Head(s)>> ELSE <<Head(s)>>)
         \o EscapeChars(Tail(s))

Quote(s) == <<"\"">> \o EscapeChars(s) \o <<"\"">>

RECURSIVE StringifyMembers(_)
StringifyMembers(obj) ==
  IF obj = <<>> THEN <<>>
  ELSE Quote(obj[1].k) \o <<":">> \o Quote(obj[1].v)
         \o (IF Len(obj) > 1 THEN <<",">> ELSE <<>>) \o StringifyMembers(Tail(obj))

\* JSON.stringify of an object whose members are strings
StringifyObject(obj) == <<"{">> \o StringifyMembers(obj) \o <<"}">>

StringifyEntry(e) ==
  Quote(e.k) \o <<":">>
    \o (CASE e.t = "str" -> Quote(e.v)
          [] e.t = "lit" -> e.v
          [] e.t = "obj" -> StringifyObject(e.o))

RECURSIVE StringifyEntries(_)
StringifyEntries(r) ==
  IF r = <<>> THEN <<>>
  ELSE StringifyEntry(r[1]) \o (IF Len(r) > 1 THEN <<",">> ELSE <<>>)
         \o StringifyEntries(Tail(r))

\* JSON.stringify(result) of a tool result
JSONStringify(r) == <<"{">> \o StringifyEntries(r) \o <<"}">>

ParseFail == [ok |-> FALSE, val |-> <<>>, next |-> 0]

RECURSIVE ScanString(_, _, _)
ScanString(s, i, acc) ==
  IF i > Len(s) THEN ParseFail
  ELSE IF s[i] = "\"" THEN [ok |-> TRUE, val |-> acc, next |-> i + 1]
  ELSE IF s[i] = "\\"
         THEN (IF i + 1 > Len(s) THEN ParseFail
               ELSE ScanString(s, i + 2, Append(acc, s[i + 1])))
  ELSE ScanString(s, i + 1, Append(acc, s[i]))

ParseStringAt(s, i) ==
  IF i <= Len(s) /\ s[i] = "\"" THEN ScanString(s, i + 1, <<>>) ELSE ParseFail

RECURSIVE ParseMembers(_, _, _)
ParseMembers(s, i, acc) ==
  LET k == ParseStringAt(s, i)
      v == ParseStringAt(s, k.next + 1)
      more == Append(acc, [k |-> k.val, v |-> v.val])
  IN  IF ~k.ok \/ k.next > Len(s) \/ s[k.next] # ":" THEN [ok |-> FALSE, obj |-> <<>>]
      ELSE IF ~v.ok \/ v.next > Len(s) THEN [ok |-> FALSE, obj |-> <<>>]
      ELSE IF s[v.next] = "," THEN ParseMembers(s, v.next + 1, more)
      ELSE IF s[v.next] = "}" /\ v.next = Len(s) THEN [ok |-> TRUE, obj |-> more]
      ELSE [ok |-> FALSE, obj |-> <<>>]

\* JSON.parse of a tool call's argument text: ok is FALSE where JSON.parse
\* throws a SyntaxError.  The texts of this model are objects with string
\* members, complete or cut short.
JSONParse(s) ==
  IF Len(s) < 2 \/ s[1] # "{" THEN [ok |-> FALSE, obj |-> <<>>]
  ELSE IF s[2] = "}" THEN [ok |-> Len(s) = 2, obj |-> <<>>]
  ELSE ParseMembers(s, 2, <<>>)

\* The value JSON.parse returns for an argument text: null for the text
\* null, else the object
ParsedValue(s) == [null |-> s = s_null, members |-> JSONParse(s).obj]

\* JSON.parse throws on the text
ParseThrows(s) == s # s_null /\ ~JSONParse(s).ok

\* Property read obj[key]: the last member of that name; Has is (key in obj)
Has(obj, key) == \E i \in 1..Len(obj) : obj[i].k = key

Get(obj, key) ==
  LET I == {i \in 1..Len(obj) : obj[i].k = key}
  IN  obj[CHOOSE i \in I : \A j \in I : j <= i].v

\* Assignment obj[key] = value: in place when the key exists, else appended
Put(obj, key, value) ==
  IF Has(obj, key)
  THEN [i \in 1..Len(obj) |-> IF obj[i].k = key THEN [k |-> key, v |-> value] ELSE obj[i]]
  ELSE Append(obj, [k |-> key, v |-> value])

\* ------------------------------------------------------------------------
\* The config collaborator (Gateway): the gateway.ini file is cfg.kv, a
\* sequence of string members, present on disk iff cfg.exists.
\* ------------------------------------------------------------------------
listConfig(cfg) ==
  IF ~cfg.exists THEN [throws |-> TRUE, message |-> s_nofile, config |-> <<>>]
  ELSE [throws |-> FALSE, message |-> <<>>, config |-> cfg.kv]

getConfig(cfg, key) ==
  LET l == listConfig(cfg)
  IN  IF l.throws THEN [throws |-> TRUE, message |-> l.message, value |-> <<>>]
      ELSE IF ~Has(l.config, key)
             THEN [throws |-> TRUE, message |-> s_notfound \o key, value |-> <<>>]
      ELSE [throws |-> FALSE, message |-> <<>>, value |-> Get(l.config, key)]

setConfig(cfg, key, value) ==
  IF ~cfg.exists THEN [throws |-> TRUE, message |-> s_nofile, cfg |-> cfg]
  ELSE [throws |-> FALSE, message |-> <<>>,
        cfg |-> [cfg EXCEPT !.kv = Put(listConfig(cfg).config, key, value)]]

\* ------------------------------------------------------------------------
\* Tool executor (agent.js)
\* ------------------------------------------------------------------------
Str(k, v) == [k |-> k, t |-> "str", v |-> v, o |-> <<>>]
Lit(k, v) == [k |-> k, t |-> "lit", v |-> v, o |-> <<>>]
Obj(k, o) == [k |-> k, t |-> "obj", v |-> <<>>, o |-> o]

\* os.platform() and os.homedir() of the machine the session runs on
platform == s_linux
homeDir == <<"/", "h">>

getPlatformSpecificErrorNote(message) ==
  LET errorMsg == ToLowerCase(message)
  IN  IF Includes(errorMsg, s_permission) \/ Includes(errorMsg, s_eacces)
        THEN Str(s_note, s_note_perm)
      ELSE IF Includes(errorMsg, s_enoent) \/ Includes(errorMsg, s_not_found)
        THEN Str(s_note, s_note_path1 \o homeDir \o s_note_path2)
      ELSE IF Includes(errorMsg, s_eaddrinuse) \/ Includes(errorMsg, s_port)
        THEN Str(s_note, s_note_port)
      ELSE Lit(s_note, s_null)

\* A catch block that drops the success member
CaughtResultNoSuccess(message) ==
  << Str(s_error, message), Str(s_platform, platform),
     getPlatformSpecificErrorNote(message) >>

\* The catch block of executeTool
CaughtResult(message) ==
  << Lit(s_success, s_false), Str(s_error, message), Str(s_platform, platform),
     getPlatformSpecificErrorNote(message) >>

\* Destructuring read `const { key } = args`: undefined when absent, which a
\* template literal and a property name both spell "undefined"
Arg(args, name) == IF Has(args, name) THEN Get(args, name) ELSE s_undefined

\* if (key): present and not the empty string
Truthy(args, name) == Has(args, name) /\ Get(args, name) # <<>>

SetConfigResult(key, value) ==
  << Lit(s_success, s_true),
     Str(s_message, s_updated \o key \o s_eq \o value),
     Str(s_platform, platform) >>

GetConfigResult(key, value) ==
  << Lit(s_success, s_true), Str(s_key, key), Str(s_value, value),
     Str(s_platform, platform) >>

ListConfigResult(config) ==
  << Lit(s_success, s_true), Obj(s_config, config), Str(s_platform, platform) >>

\* A failure result without a message
UnknownToolResultBare(toolName) ==
  << Lit(s_success, s_false), Str(s_platform, platform) >>

UnknownToolResult(toolName) ==
  << Lit(s_success, s_false), Str(s_message, s_unknown \o toolName),
     Str(s_platform, platform) >>

\* Texts of the process tools of executeTool and of the errors their
\* collaborator raises
ToolText ==
  [ running |-> <<"r", "u", "n", "n", "i", "n", "g">>,
    pid |-> <<"p", "i", "d">>,
    logs |-> <<"l", "o", "g", "s">>,
    lines |-> <<"l", "i", "n", "e", "s">>,
    daemon |-> <<"d", "a", "e", "m", "o", "n">>,
    fifty |-> <<"5", "0">>,
    is_running |-> <<"G", "a", "t", "e", "w", "a", "y", " ", "i", "s", " ", "r", "u", "n", "n", "i", "n", "g", " ", "(", "P", "I", "D", ":", " ">>,
    not_running |-> <<"G", "a", "t", "e", "w", "a", "y", " ", "i", "s", " ", "n", "o", "t", " ", "r", "u", "n", "n", "i", "n", "g">>,
    already |-> <<"G", "a", "t", "e", "w", "a", "y", " ", "i", "s", " ", "a", "l", "r", "e", "a", "d", "y", " ", "r", "u", "n", "n", "i", "n", "g">>,
    started |-> <<"G", "a", "t", "e", "w", "a", "y", " ", "s", "t", "a", "r", "t", "e", "d", " ", "s", "u", "c", "c", "e", "s", "s", "f", "u", "l", "l", "y", " ", "(", "P", "I", "D", ":", " ">>,
    background |-> <<"R", "u", "n", "n", "i", "n", "g", " ", "i", "n", " ", "b", "a", "c", "k", "g", "r", "o", "u", "n", "d">>,
    start_failed |-> <<"G", "a", "t", "e", "w", "a", "y", " ", "f", "a", "i", "l", "e", "d", " ", "t", "o", " ", "s", "t", "a", "r", "t", ".", " ", "C", "h", "e", "c", "k", " ", "l", "o", "g", "s", " ", "f", "o", "r", " ", "d", "e", "t", "a", "i", "l", "s", ".">>,
    still |-> <<"G", "a", "t", "e", "w", "a", "y", " ", "m", "a", "y", " ", "s", "t", "i", "l", "l", " ", "b", "e", " ", "s", "h", "u", "t", "t", "i", "n", "g", " ", "d", "o", "w", "n">>,
    stopped |-> <<"G", "a", "t", "e", "w", "a", "y", " ", "s", "t", "o", "p", "p", "e", "d", " ", "s", "u", "c", "c", "e", "s", "s", "f", "u", "l", "l", "y">>,
    logs_failed |-> <<"F", "a", "i", "l", "e", "d", " ", "t", "o", " ", "r", "e", "t", "r", "i", "e", "v", "e", " ", "l", "o", "g", "s", ":", " ">>,
    logs_note |-> <<"C", "h", "e", "c", "k", " ", "~", "/", ".", "t", "o", "k", "l", "i", "g", "e", "n", "c", "e", "/", "l", "o", "g", "s", "/", " ", "d", "i", "r", "e", "c", "t", "o", "r", "y">>,
    get_status |-> <<"g", "e", "t", "_", "s", "t", "a", "t", "u", "s">>,
    start_gateway |-> <<"s", "t", "a", "r", "t", "_", "g", "a", "t", "e", "w", "a", "y">>,
    stop_gateway |-> <<"s", "t", "o", "p", "_", "g", "a", "t", "e", "w", "a", "y">>,
    get_logs |-> <<"g", "e", "t", "_", "l", "o", "g", "s">>,
    destructure |-> <<"C", "a", "n", "n", "o", "t", " ", "d", "e", "s", "t", "r", "u", "c", "t", "u", "r", "e", " ", "p", "r", "o", "p", "e", "r", "t", "y", " ", "o", "f", " ", "n", "u", "l", "l">>,
    spawn_enoent |-> <<"F", "a", "i", "l", "e", "d", " ", "t", "o", " ", "s", "t", "a", "r", "t", " ", "g", "a", "t", "e", "w", "a", "y", ":", " ", "s", "p", "a", "w", "n", " ", "E", "N", "O", "E", "N", "T">>,
    kill_eperm |-> <<"k", "i", "l", "l", " ", "E", "P", "E", "R", "M">>,
    tail_failed |-> <<"C", "o", "m", "m", "a", "n", "d", " ", "f", "a", "i", "l", "e", "d", ":", " ", "t", "a", "i", "l">> ]

\* What the process collaborator does during one executeTool call: the
\* error gateway.start(), gateway.stop() or gateway.logs() raises (<<>> for
\* none), whether the gateway runs after a start and after a stop, and the
\* pid of a started process
CalmEnv ==
  [startThrows |-> <<>>, startRuns |-> TRUE, stopThrows |-> <<>>, stopRuns |-> FALSE,
   logsThrows |-> <<>>, pid |-> 7]

\* `const { key } = args` throws a TypeError when args is null
Destructured(args, cfg, body) ==
  IF args.null THEN [result |-> CaughtResult(ToolText.destructure), cfg |-> cfg] ELSE body

PidEntry(pid) == Lit(ToolText.pid, IF pid = 0 THEN s_null ELSE NumToString(pid))

GetStatusResult(cfg) ==
  << Lit(s_success, s_true),
     Lit(ToolText.running, IF cfg.running THEN s_true ELSE s_false),
     PidEntry(cfg.pid),
     Str(s_platform, platform),
     Str(s_message, IF cfg.running
                      THEN ToolText.is_running \o NumToString(cfg.pid) \o s_rparen
                      ELSE ToolText.not_running) >>

\* The tool without its isRunning() test before gateway.start()
StartGatewayUnchecked(cfg, env) ==
  IF env.startThrows # <<>>
  THEN [result |-> CaughtResult(env.startThrows), cfg |-> cfg, called |-> "start"]
  ELSE [result |-> << Lit(s_success, s_true),
                      Str(s_message, ToolText.started \o NumToString(env.pid) \o s_rparen),
                      PidEntry(env.pid),
                      Str(s_platform, platform),
                      Str(s_note, ToolText.background) >>,
        cfg |-> [cfg EXCEPT !.running = TRUE, !.pid = env.pid],
        called |-> "start"]

\* `called` names the method of the gateway collaborator the tool has called
\* besides isRunning() and getPid(): "start", "stop" or "none"
StartGateway(cfg, env) ==
  IF cfg.running
  THEN [result |-> << Lit(s_success, s_false), Str(s_message, ToolText.already),
                      Str(s_platform, platform) >>,
        cfg |-> cfg, called |-> "none"]
  ELSE IF env.startThrows # <<>>
  THEN [result |-> CaughtResult(env.startThrows), cfg |-> cfg, called |-> "start"]
  ELSE IF env.startRuns
  THEN [result |-> << Lit(s_success, s_true),
                      Str(s_message, ToolText.started \o NumToString(env.pid) \o s_rparen),
                      PidEntry(env.pid),
                      Str(s_platform, platform),
                      Str(s_note, ToolText.background) >>,
        cfg |-> [cfg EXCEPT !.running = TRUE, !.pid = env.pid],
        called |-> "start"]
  ELSE [result |-> << Lit(s_success, s_false), Str(s_message, ToolText.start_failed),
                      Str(s_platform, platform) >>,
        cfg |-> cfg, called |-> "start"]

StopGateway(cfg, env) ==
  IF ~cfg.running
  THEN [result |-> << Lit(s_success, s_false), Str(s_message, ToolText.not_running),
                      Str(s_platform, platform) >>,
        cfg |-> cfg, called |-> "none"]
  ELSE IF env.stopThrows # <<>>
  THEN [result |-> CaughtResult(env.stopThrows), cfg |-> cfg, called |-> "stop"]
  ELSE [result |-> << Lit(s_success, IF env.stopRuns THEN s_false ELSE s_true),
                      Str(s_message, IF env.stopRuns THEN ToolText.still ELSE ToolText.stopped),
                      Str(s_platform, platform) >>,
        cfg |-> [cfg EXCEPT !.running = env.stopRuns,
                            !.pid = IF env.stopRuns THEN cfg.pid ELSE 0],
        called |-> "stop"]

\* gateway.logs() prints and returns undefined, a member JSON.stringify omits
GetLogs(args, cfg, env) ==
  IF env.logsThrows # <<>>
  THEN [result |-> << Lit(s_success, s_false),
                      Str(s_message, ToolText.logs_failed \o env.logsThrows),
                      Str(s_platform, platform),
                      Str(s_note, ToolText.logs_note) >>,
        cfg |-> cfg]
  ELSE [result |-> << Lit(s_success, s_true),
                      (IF Has(args.members, ToolText.lines)
                         THEN Str(ToolText.lines, Get(args.members, ToolText.lines))
                         ELSE Lit(ToolText.lines, ToolText.fifty)),
                      Str(s_platform, platform) >>,
        cfg |-> cfg]

SetConfig(args, cfg) ==
  LET key == Arg(args.members, s_key)
      value == Arg(args.members, s_value)
      r == setConfig(cfg, key, value)
  IN  IF r.throws THEN [result |-> CaughtResult(r.message), cfg |-> cfg]
      ELSE [result |-> SetConfigResult(key, value), cfg |-> r.cfg]

GetConfig(args, cfg) ==
  IF Truthy(args.members, s_key)
  THEN LET key == Get(args.members, s_key)
           r == getConfig(cfg, key)
       IN  IF r.throws THEN [result |-> CaughtResult(r.message), cfg |-> cfg]
           ELSE [result |-> GetConfigResult(key, r.value), cfg |-> cfg]
  ELSE LET l == listConfig(cfg)
       IN  IF l.throws THEN [result |-> CaughtResult(l.message), cfg |-> cfg]
           ELSE [result |-> ListConfigResult(l.config), cfg |-> cfg]

\* executeTool(toolName, args): the result object and the machine's state
\* (config file, gateway process) after the call
executeTool(toolName, args, cfg, env) ==
  CASE toolName = s_set_config -> Destructured(args, cfg, SetConfig(args, cfg))
    [] toolName = s_get_config -> Destructured(args, cfg, GetConfig(args, cfg))
    [] toolName = ToolText.get_status ->
         [result |-> GetStatusResult(cfg), cfg |-> cfg]
    [] toolName = ToolText.start_gateway -> Destructured(args, cfg, StartGateway(cfg, env))
    [] toolName = ToolText.stop_gateway -> StopGateway(cfg, env)
    [] toolName = ToolText.get_logs -> Destructured(args, cfg, GetLogs(args, cfg, env))
    [] OTHER -> [result |-> UnknownToolResult(toolName), cfg |-> cfg]

\* parseToolCalls(message): a hole of the sparse tool_calls array is skipped
\* by Array.prototype.map and stays a hole; ok is FALSE where JSON.parse throws
ParsedCall(toolCall) ==
  [id |-> toolCall.id, name |-> toolCall.name,
   args |-> ParsedValue(toolCall.arguments), hole |-> toolCall.hole]

\* A parser that takes arguments it cannot parse as an empty object
parseToolCallsLenient(tool_calls) ==
  [ok |-> TRUE,
   calls |-> [i \in 1..Len(tool_calls) |->
                IF ParseThrows(tool_calls[i].arguments)
                THEN [ParsedCall(tool_calls[i]) EXCEPT !.args = [null |-> FALSE, members |-> <<>>]]
                ELSE ParsedCall(tool_calls[i])]]

\* The calls taken in reverse order
parseToolCallsReversed(tool_calls) ==
  [ok |-> \A i \in 1..Len(tool_calls) :
             tool_calls[i].hole \/ ~ParseThrows(tool_calls[i].arguments),
   calls |-> [i \in 1..Len(tool_calls) |->
                ParsedCall(tool_calls[Len(tool_calls) + 1 - i])]]

parseToolCalls(tool_calls) ==
  [ok |-> \A i \in 1..Len(tool_calls) :
             tool_calls[i].hole \/ ~ParseThrows(tool_calls[i].arguments),
   calls |-> [i \in 1..Len(tool_calls) |-> ParsedCall(tool_calls[i])]]

\* The message executeToolCalls pushes for one executed call
ToolResultMessage(toolCall, result) ==
  [role |-> "tool", content |-> JSONStringify(result), tool_calls |-> <<>>,
   tool_call_id |-> toolCall.id, name |-> toolCall.name]

\* ------------------------------------------------------------------------
\* Stream consumption of one model turn (ChatSession.getResponse).  The
\* accumulator is [assistantMessage, toolCalls, shouldContinue]; a slot of
\* toolCalls is [id, name, arguments, hole], hole marking an index of the
\* JavaScript array that was never assigned.
\* ------------------------------------------------------------------------
Hole == [id |-> <<>>, name |-> <<>>, arguments |-> <<>>, hole |-> TRUE]

TurnStart == [assistantMessage |-> <<>>, toolCalls |-> <<>>, shouldContinue |-> TRUE]

\* toolCalls[index] = slot, index counted from 0 as in the source
SetSlot(toolCalls, index, slot) ==
  [i \in 1..(IF index + 1 > Len(toolCalls) THEN index + 1 ELSE Len(toolCalls)) |->
     IF i = index + 1 THEN slot
     ELSE IF i <= Len(toolCalls) THEN toolCalls[i]
     ELSE Hole]

\* A slot that keeps the last fragment only
ApplyToolCallDeltaOverwrite(toolCalls, d) ==
  LET absent == d.index + 1 > Len(toolCalls) \/ toolCalls[d.index + 1].hole
      slot == IF absent
              THEN [id |-> d.id, name |-> d.name, arguments |-> <<>>, hole |-> FALSE]
              ELSE toolCalls[d.index + 1]
      named == IF d.name # <<>> THEN [slot EXCEPT !.name = @ \o d.name] ELSE slot
      filled == IF d.arguments # <<>>
                THEN [named EXCEPT !.arguments = d.arguments] ELSE named
  IN  SetSlot(toolCalls, d.index, filled)

\* OpenAI format: one element of delta.tool_calls
ApplyToolCallDelta(toolCalls, d) ==
  LET absent == d.index + 1 > Len(toolCalls) \/ toolCalls[d.index + 1].hole
      slot == IF absent
              THEN [id |-> d.id, name |-> d.name, arguments |-> <<>>, hole |-> FALSE]
              ELSE toolCalls[d.index + 1]
      named == IF d.name # <<>> THEN [slot EXCEPT !.name = @ \o d.name] ELSE slot
      filled == IF d.arguments # <<>>
                THEN [named EXCEPT !.arguments = @ \o d.arguments] ELSE named
  IN  SetSlot(toolCalls, d.index, filled)

RECURSIVE ApplyToolCallDeltas(_, _)
ApplyToolCallDeltas(toolCalls, ds) ==
  IF ds = <<>> THEN toolCalls
  ELSE ApplyToolCallDeltas(ApplyToolCallDelta(toolCalls, Head(ds)), Tail(ds))

\* OpenAI format: one chunk [content, tool_calls, finish_reason]
OpenAIChunk(acc, chunk) ==
  [assistantMessage |-> acc.assistantMessage \o chunk.content,
   toolCalls |-> ApplyToolCallDeltas(acc.toolCalls, chunk.tool_calls),
   shouldContinue |-> IF chunk.finish_reason = "stop" THEN FALSE
                      ELSE IF chunk.finish_reason = "tool_calls" THEN TRUE
                      ELSE acc.shouldContinue]

\* Anthropic format: one event [type, delta_type, text, partial_json,
\* block_type, id, name]; the branches are tested in the order of the source
AnthropicEvent(acc, event) ==
  IF event.type = "content_block_delta"
  THEN (IF event.delta_type = "text_delta"
        THEN [acc EXCEPT !.assistantMessage = @ \o event.text]
        ELSE acc)
  ELSE IF event.type = "content_block_start"
  THEN (IF event.block_type = "tool_use"
        THEN [acc EXCEPT !.toolCalls =
                Append(@, [id |-> event.id, name |-> event.name,
                           arguments |-> <<>>, hole |-> FALSE])]
        ELSE acc)
  ELSE IF event.type = "content_block_delta" /\ event.delta_type = "input_json_delta"
  THEN (IF acc.toolCalls # <<>>
        THEN [acc EXCEPT !.toolCalls[Len(acc.toolCalls)].arguments =
                @ \o event.partial_json]
        ELSE acc)
  ELSE IF event.type = "message_stop"
  THEN [acc EXCEPT !.shouldContinue = Len(acc.toolCalls) > 0]
  ELSE acc

\* Google format: the function calls [name, args] of one chunk; the id is
\* `google_${Date.now()}_${toolCalls.length}`
RECURSIVE GoogleFunctionCalls(_, _, _)
GoogleFunctionCalls(toolCalls, fcs, clock) ==
  IF fcs = <<>> THEN toolCalls
  ELSE GoogleFunctionCalls(
         Append(toolCalls,
                [id |-> s_google \o NumToString(clock) \o <<"_">>
                          \o NumToString(Len(toolCalls)),
                 name |-> Head(fcs).name,
                 arguments |-> StringifyObject(Head(fcs).args),
                 hole |-> FALSE]),
         Tail(fcs), clock)

\* Google format: one chunk [text, functionCalls]
GoogleChunk(acc, chunk, clock) ==
  [acc EXCEPT !.assistantMessage = @ \o chunk.text,
              !.toolCalls = GoogleFunctionCalls(@, chunk.functionCalls, clock)]

RECURSIVE ConsumeStream(_, _, _, _)
ConsumeStream(type, acc, stream, clock) ==
  IF stream = <<>>
  THEN (IF type = "google"
        THEN [acc EXCEPT !.shouldContinue = Len(acc.toolCalls) > 0]
        ELSE acc)
  ELSE ConsumeStream(type,
         (IF type = "google" THEN GoogleChunk(acc, Head(stream), clock)
          ELSE IF type = "anthropic" THEN AnthropicEvent(acc, Head(stream))
          ELSE OpenAIChunk(acc, Head(stream))),
         Tail(stream), clock)

\* The message object built after the stream: content is
\* `assistantMessage || null`, null being written <<>>
AssistantMessage(acc) ==
  [role |-> "assistant", content |-> acc.assistantMessage,
   tool_calls |-> acc.toolCalls, tool_call_id |-> <<>>, name |-> <<>>]

\* ------------------------------------------------------------------------
\* Backend behaviours: the response streams a backend may send in one turn
\* ------------------------------------------------------------------------
ArgsGetKey == StringifyObject(<<[k |-> s_key, v |-> s_api_key]>>)
ArgsGetAll == StringifyObject(<<>>)
ArgsSet == StringifyObject(<<[k |-> s_key, v |-> s_api_key], [k |-> s_value, v |-> s_sk_new]>>)
Chunk(content, tool_calls, finish_reason) ==
  [content |-> content, tool_calls |-> tool_calls, finish_reason |-> finish_reason]

Delta(index, id, name, arguments) ==
  [index |-> index, id |-> id, name |-> name, arguments |-> arguments]

Finish(reason) == Chunk(<<>>, <<>>, reason)

\* text, then finish_reason stop
OA_text == << Chunk(s_ok, <<>>, "none"), Finish("stop") >>
\* text, the stream ends with no finish_reason
OA_nofinish == << Chunk(s_ok, <<>>, "none") >>
\* one call, its name in the first delta, its arguments in two fragments
OA_get ==
  << Chunk(<<>>, <<Delta(0, s_call_a, s_get_config, <<>>)>>, "none"),
     Chunk(<<>>, <<Delta(0, <<>>, <<>>, SubSeq(ArgsGetKey, 1, 7))>>, "none"),
     Chunk(<<>>, <<Delta(0, <<>>, <<>>, SubSeq(ArgsGetKey, 8, Len(ArgsGetKey)))>>, "none"),
     Finish("tool_calls") >>
\* one call, the first delta carries the id only, the name follows
OA_get_late ==
  << Chunk(<<>>, <<Delta(0, s_call_a, <<>>, <<>>)>>, "none"),
     Chunk(<<>>, <<Delta(0, <<>>, s_get_config, ArgsGetKey)>>, "none"),
     Finish("tool_calls") >>
\* two calls, the fragments of their arguments interleaved
OA_two ==
  << Chunk(<<>>, <<Delta(0, s_call_a, <<>>, <<>>), Delta(1, s_call_b, <<>>, <<>>)>>, "none"),
     Chunk(s_ok, <<Delta(0, <<>>, s_set_config, SubSeq(ArgsSet, 1, 10))>>, "none"),
     Chunk(<<>>, <<Delta(1, <<>>, s_get_config, ArgsGetAll)>>, "none"),
     Chunk(<<>>, <<Delta(0, <<>>, <<>>, SubSeq(ArgsSet, 11, Len(ArgsSet)))>>, "none"),
     Finish("tool_calls") >>
\* one call, finished with finish_reason stop
OA_call_stop ==
  << Chunk(<<>>, <<Delta(0, s_call_a, <<>>, <<>>)>>, "none"),
     Chunk(<<>>, <<Delta(0, <<>>, s_get_config, ArgsGetAll)>>, "none"),
     Finish("stop") >>
\* two calls, the arguments of the second cut short
OA_cut ==
  << Chunk(<<>>, <<Delta(0, s_call_a, <<>>, <<>>), Delta(1, s_call_b, <<>>, <<>>)>>, "none"),
     Chunk(<<>>, <<Delta(0, <<>>, s_set_config, ArgsSet)>>, "none"),
     Chunk(<<>>, <<Delta(1, <<>>, s_get_config, SubSeq(ArgsGetKey, 1, 7))>>, "none"),
     Finish("tool_calls") >>
\* one call of a tool that is not in the registry, finished with stop
OA_unknown_stop ==
  << Chunk(<<>>, <<Delta(0, s_call_a, <<>>, <<>>)>>, "none"),
     Chunk(<<>>, <<Delta(0, <<>>, s_nope, ArgsGetAll)>>, "none"),
     Finish("stop") >>

\* text, then finish_reason tool_calls although no call was opened
OA_text_toolfinish == << Chunk(s_ok, <<>>, "none"), Finish("tool_calls") >>

OpenAIStreams ==
  {OA_text, OA_nofinish, OA_get, OA_get_late, OA_two, OA_call_stop, OA_cut, OA_unknown_stop,
   OA_text_toolfinish}

Event(type, delta_type, text, partial_json, block_type, id, name) ==
  [type |-> type, delta_type |-> delta_type, text |-> text,
   partial_json |-> partial_json, block_type |-> block_type, id |-> id, name |-> name]

TextDelta(text) == Event("content_block_delta", "text_delta", text, <<>>, "", <<>>, <<>>)
InputJsonDelta(json) == Event("content_block_delta", "input_json_delta", <<>>, json, "", <<>>, <<>>)
ToolUseStart(id, name) == Event("content_block_start", "", <<>>, <<>>, "tool_use", id, name)
MessageStop == Event("message_stop", "", <<>>, <<>>, "", <<>>, <<>>)

AN_text == << TextDelta(s_ok), MessageStop >>
AN_nostop == << TextDelta(s_ok) >>
AN_tool ==
  << TextDelta(s_ok), ToolUseStart(s_toolu, s_get_config),
     InputJsonDelta(SubSeq(ArgsGetKey, 1, 7)),
     InputJsonDelta(SubSeq(ArgsGetKey, 8, Len(ArgsGetKey))), MessageStop >>

AnthropicStreams == {AN_text, AN_nostop, AN_tool}

GChunk(text, functionCalls) == [text |-> text, functionCalls |-> functionCalls]
FunctionCall(name, args) == [name |-> name, args |-> args]

GO_text == << GChunk(s_ok, <<>>) >>
GO_get == << GChunk(<<>>, <<FunctionCall(s_get_config, <<[k |-> s_key, v |-> s_api_key]>>)>>) >>
GO_two ==
  << GChunk(s_ok, <<>>),
     GChunk(<<>>, << FunctionCall(s_set_config,
                        <<[k |-> s_key, v |-> s_api_key], [k |-> s_value, v |-> s_sk_new]>>),
                     FunctionCall(s_get_config, <<>>) >>) >>
GO_unknown == << GChunk(<<>>, <<FunctionCall(s_nope, <<>>)>>) >>
GO_port == << GChunk(<<>>, <<FunctionCall(s_get_config, <<[k |-> s_key, v |-> s_port]>>)>>) >>

GoogleStreams == {GO_text, GO_get, GO_two, GO_unknown, GO_port}

Streams(type) ==
  IF type = "google" THEN GoogleStreams
  ELSE IF type = "anthropic" THEN AnthropicStreams
  ELSE OpenAIStreams

\* The tool request a backend repeats once it has varied its requests in
\* MaxVariedTurns turns
RepeatStream(type) ==
  IF type = "google" THEN GO_get
  ELSE IF type = "anthropic" THEN AN_tool
  ELSE OA_get_late

EndpointTypes == {"openai", "anthropic", "google"}

\* The config files a session may start with
Configs ==
  { [exists |-> TRUE, kv |-> <<[k |-> s_api_key, v |-> s_sk_old]>>,
     running |-> FALSE, pid |-> 0],
    [exists |-> FALSE, kv |-> <<>>, running |-> FALSE, pid |-> 0] }

\* The input lines a user may enter
Inputs ==
  { s_hi, <<" ", "h", "i", " ">>, <<" ", "E", "x", "i", "t">>, <<"Q", "U", "I", "T", " ">>,
    <<" ">>, <<>> }

\* ------------------------------------------------------------------------
\* State
\* ------------------------------------------------------------------------
VARIABLES
  endpointType,    \* this.endpoint.type, fixed for the session
  messages,        \* this.messages
  config,          \* the gateway.ini file behind the Gateway collaborator
  exited,          \* process.exit(0) was called by the 'close' handler
  typeAhead,       \* the user enters lines without waiting for the prompt
  now,             \* Date.now()
  toolTurns,       \* number of turns in which the backend has requested tools
  pc,              \* per line handler: "idle", "stream", "exec" or "done"
  iterationCount,  \* per line handler: iterationCount of getResponse
  shouldContinue,  \* per line handler: shouldContinue of getResponse
  parsed,          \* per line handler: parsedToolCalls of the current turn
  results,         \* per line handler: results of executeToolCalls so far
  asstIdx,         \* per line handler: index in messages of the turn's assistant message
  nreq,            \* per line handler: model requests made by its getResponse
  sentLen,         \* per line handler: number of messages in its latest request
  notice,          \* per line handler: the maximum-iterations notice was printed
  outcome,         \* per line handler: "none", "exit", "empty", "stop", "ceiling", "error"
  secrets,         \* values stored so far under a sensitive config key
  maskIn,          \* argument of maskSensitiveValue
  maskOut,         \* its result
  maskDone,        \* maskSensitiveValue has returned
  callOp,          \* the function applied on its own, "none" in a session
  callIn,          \* its arguments
  callOut,         \* its result
  callDone,        \* it has returned
  detector,        \* startChat and its LLMDetector, <<>> where they are not run
  updater          \* the update checker and its update-config.json, <<>> likewise

sessionVars == <<endpointType, messages, config, exited, typeAhead, now, toolTurns, secrets>>
handlerVars == <<pc, iterationCount, shouldContinue, parsed, results, asstIdx, nreq,
                 sentLen, notice, outcome>>
maskVars == <<maskIn, maskOut, maskDone, callOp, callIn, callOut, callDone, detector, updater>>
vars == <<sessionVars, handlerVars, maskVars>>

Handlers == 1..MaxLines

maxIterations == 5

\* Array.prototype.unshift in place of push
PushFront(msgs, m) == <<m>> \o msgs

\* Array.prototype.push
Push(msgs, m) == Append(msgs, m)

Message(role, content) ==
  [role |-> role, content |-> content, tool_calls |-> <<>>,
   tool_call_id |-> <<>>, name |-> <<>>]

SystemPrompt == s_sys

\* The loop test with <= in place of <
LoopCondOffByOne(sc, ic) == sc /\ ic <= maxIterations

\* while (shouldContinue && iterationCount < maxIterations)
LoopCond(sc, ic) == sc /\ ic < maxIterations

\* The values of sensitive keys in a config file
SensitiveValuesOf(kv) ==
  {kv[i].v : i \in {j \in 1..Len(kv) : isSensitiveConfigKey(kv[j].k)}}

\* A model turn or a tool execution of handler h is in progress
InFlight(h) == pc[h] \in {"stream", "exec"}

\* Tool-requesting turns the backend may take in a session: fewer when the
\* user types ahead, where the turns of several lines interleave
ToolTurnBudget == IF typeAhead THEN MaxTypeAheadToolTurns ELSE MaxToolTurns

\* Tool-requesting turns in which the backend varies its request; afterwards,
\* and always when the user types ahead, it repeats RepeatStream
VariedTurnBudget == IF typeAhead THEN 0 ELSE MaxVariedTurns

\* The prompt is shown and nothing is in progress
AwaitingUserInput == ~exited /\ \A h \in Handlers : ~InFlight(h)

SessionInit ==
  /\ endpointType \in EndpointTypes
  /\ messages = <<Message("system", SystemPrompt)>>
  /\ config \in Configs
  /\ exited = FALSE
  /\ typeAhead \in BOOLEAN
  /\ now = 0
  /\ toolTurns = 0
  /\ secrets = SensitiveValuesOf(config.kv)
  /\ pc = [h \in Handlers |-> "idle"]
  /\ iterationCount = [h \in Handlers |-> 0]
  /\ shouldContinue = [h \in Handlers |-> FALSE]
  /\ parsed = [h \in Handlers |-> <<>>]
  /\ results = [h \in Handlers |-> <<>>]
  /\ asstIdx = [h \in Handlers |-> 0]
  /\ nreq = [h \in Handlers |-> 0]
  /\ sentLen = [h \in Handlers |-> 0]
  /\ notice = [h \in Handlers |-> FALSE]
  /\ outcome = [h \in Handlers |-> "none"]

\* No function is applied on its own
NoCall == callOp = "none" /\ callIn = <<>> /\ callOut = <<>> /\ callDone = FALSE

\* startChat's detection and the update checker are not run
NoStartup == detector = <<>> /\ updater = <<>>

Init ==
  /\ SessionInit
  /\ maskIn = <<>>
  /\ maskOut = <<>>
  /\ maskDone = FALSE
  /\ NoCall
  /\ NoStartup

\* ------------------------------------------------------------------------
\* Steps of getResponse shared by the actions
\* ------------------------------------------------------------------------

\* Handler h leaves getResponse through the catch block
Caught(h) ==
  /\ pc' = [pc EXCEPT ![h] = "done"]
  /\ outcome' = [outcome EXCEPT ![h] = "error"]
  /\ UNCHANGED <<iterationCount, nreq, sentLen, notice>>

\* Handler h is at the head of the while loop with shouldContinue = sc and
\* the conversation msgs: either the next request is made from msgs, or the
\* loop is left, the notice is printed if iterationCount >= maxIterations,
\* getResponse returns and the prompt is shown
LoopHead(h, sc, msgs) ==
  IF LoopCond(sc, iterationCount[h])
  THEN /\ iterationCount' = [iterationCount EXCEPT ![h] = @ + 1]
       /\ nreq' = [nreq EXCEPT ![h] = @ + 1]
       /\ sentLen' = [sentLen EXCEPT ![h] = Len(msgs)]
       /\ pc' = [pc EXCEPT ![h] = "stream"]
       /\ UNCHANGED <<notice, outcome>>
  ELSE /\ notice' = [notice EXCEPT ![h] = iterationCount[h] >= maxIterations]
       /\ outcome' = [outcome EXCEPT ![h] = IF sc THEN "ceiling" ELSE "stop"]
       /\ pc' = [pc EXCEPT ![h] = "done"]
       /\ UNCHANGED <<iterationCount, nreq, sentLen>>

\* ------------------------------------------------------------------------
\* Actions
\* ------------------------------------------------------------------------

\* rl.on('line'): the h-th input line arrives.  An exit or quit line calls
\* rl.close(), whose 'close' handler calls process.exit(0).  readline does not wait for
\* the async handler of an earlier line, so a line may arrive at any time
\* until the process has exited.  For a request the handler runs up to its
\* first await: the user message is pushed and the first model request made.
Line(h, input) ==
  /\ ~exited
  /\ pc[h] = "idle"
  /\ \A g \in Handlers : g < h => pc[g] # "idle"
  /\ typeAhead \/ AwaitingUserInput
  /\ LET userInput == Trim(input)
     IN  IF ToLowerCase(userInput) = s_exit \/ ToLowerCase(userInput) = s_quit
         THEN /\ exited' = TRUE
              /\ pc' = [pc EXCEPT ![h] = "done"]
              /\ outcome' = [outcome EXCEPT ![h] = "exit"]
              /\ UNCHANGED <<messages, shouldContinue, iterationCount, nreq, sentLen, notice>>
         ELSE IF userInput = <<>>
         THEN /\ pc' = [pc EXCEPT ![h] = "done"]
              /\ outcome' = [outcome EXCEPT ![h] = "empty"]
              /\ UNCHANGED <<messages, exited, shouldContinue, iterationCount, nreq,
                             sentLen, notice>>
         ELSE /\ messages' = Push(messages, Message("user", userInput))
              /\ shouldContinue' = [shouldContinue EXCEPT ![h] = TRUE]
              /\ LoopHead(h, TRUE, messages')
              /\ UNCHANGED exited
  /\ UNCHANGED <<endpointType, config, typeAhead, now, toolTurns, secrets, parsed, results,
                 asstIdx>>
  /\ UNCHANGED maskVars

\* The response stream of handler h's model turn ends: the whole stream has
\* been accumulated, the assistant message is pushed, and either the tool
\* calls are parsed and the first one dispatched, or the loop is left
StreamEnd(h, stream) ==
  /\ ~exited
  /\ pc[h] = "stream"
  /\ \E acc \in {ConsumeStream(endpointType, TurnStart, stream, now)} :
     \E messageObj \in {AssistantMessage(acc)} :
     \E p \in {parseToolCalls(messageObj.tool_calls)} :
         /\ Len(acc.toolCalls) > 0 => toolTurns < ToolTurnBudget
         /\ (Len(acc.toolCalls) > 0 /\ toolTurns >= VariedTurnBudget)
              => stream = RepeatStream(endpointType)
         /\ toolTurns' = IF Len(acc.toolCalls) > 0 THEN toolTurns + 1 ELSE toolTurns
         /\ messages' = Push(messages, messageObj)
         /\ asstIdx' = [asstIdx EXCEPT ![h] = Len(messages')]
         /\ IF Len(acc.toolCalls) > 0
            THEN /\ shouldContinue' = [shouldContinue EXCEPT ![h] = acc.shouldContinue]
                 /\ results' = [results EXCEPT ![h] = <<>>]
                 /\ IF ~p.ok \/ p.calls[1].hole
                    THEN /\ Caught(h)
                         /\ parsed' = [parsed EXCEPT ![h] = <<>>]
                    ELSE /\ parsed' = [parsed EXCEPT ![h] = p.calls]
                         /\ pc' = [pc EXCEPT ![h] = "exec"]
                         /\ UNCHANGED <<iterationCount, nreq, sentLen, notice, outcome>>
            ELSE /\ shouldContinue' = [shouldContinue EXCEPT ![h] = FALSE]
                 /\ LoopHead(h, FALSE, messages')
                 /\ UNCHANGED <<parsed, results>>
  /\ now' = now + 1
  /\ UNCHANGED <<endpointType, config, exited, typeAhead, secrets>>
  /\ UNCHANGED maskVars

\* The request or the response stream of handler h's model turn fails
\* (connection refused, unauthorized, broken stream): the catch block
StreamError(h) ==
  /\ ~exited
  /\ pc[h] = "stream"
  /\ Caught(h)
  /\ UNCHANGED <<shouldContinue, parsed, results, asstIdx>>
  /\ UNCHANGED sessionVars
  /\ UNCHANGED maskVars

\* executeToolCalls of handler h: the next call is executed and its result
\* pushed on results; after the last call the results are pushed on
\* this.messages and the while loop is re-entered
ExecTool(h) ==
  /\ ~exited
  /\ pc[h] = "exec"
  /\ \E i \in {Len(results[h]) + 1} :
     \E toolCall \in {parsed[h][i]} :
     \E e \in {executeTool(toolCall.name, toolCall.args, config, CalmEnv)} :
     \E res \in {Append(results[h], ToolResultMessage(toolCall, e.result))} :
         /\ config' = e.cfg
         /\ secrets' = secrets \cup SensitiveValuesOf(e.cfg.kv)
         /\ results' = [results EXCEPT ![h] = res]
         /\ IF i < Len(parsed[h])
            THEN /\ IF parsed[h][i + 1].hole
                    THEN Caught(h)
                    ELSE UNCHANGED <<pc, iterationCount, nreq, sentLen, notice, outcome>>
                 /\ UNCHANGED messages
            ELSE /\ messages' = messages \o res
                 /\ LoopHead(h, shouldContinue[h], messages')
  /\ UNCHANGED <<endpointType, exited, typeAhead, now, toolTurns, shouldContinue, parsed,
                 asstIdx>>
  /\ UNCHANGED maskVars

Next ==
  \/ \E h \in Handlers, input \in Inputs : Line(h, input)
  \/ \E h \in Handlers : \E stream \in Streams(endpointType) : StreamEnd(h, stream)
  \/ \E h \in Handlers : StreamError(h)
  \/ \E h \in Handlers : ExecTool(h)

Spec == Init /\ [][Next]_vars

\* The event loop runs every continuation that is ready: a pending stream
\* ends or fails, a pending tool execution returns
LiveSpec ==
  /\ Spec
  /\ \A h \in Handlers :
       /\ WF_vars(StreamError(h) \/ \E stream \in Streams(endpointType) : StreamEnd(h, stream))
       /\ WF_vars(ExecTool(h))

\* ------------------------------------------------------------------------
\* maskSensitiveValue applied to one value
\* ------------------------------------------------------------------------
MaskAlphabet == {"s", "k", "-", "1"}

MaskValues == UNION {[1..n -> MaskAlphabet] : n \in 0..MaxValLen}

MaskInit ==
  /\ SessionInit
  /\ endpointType = "openai"
  /\ config.exists
  /\ ~typeAhead
  /\ maskIn \in MaskValues
  /\ maskOut = <<>>
  /\ maskDone = FALSE
  /\ NoCall
  /\ NoStartup

MaskApply ==
  /\ ~maskDone
  /\ maskOut' = maskSensitiveValue(maskIn)
  /\ maskDone' = TRUE
  /\ UNCHANGED <<maskIn, sessionVars, handlerVars, callOp, callIn, callOut, callDone,
                 detector, updater>>

MaskNext == MaskApply

MaskSpec == MaskInit /\ [][MaskNext]_vars

\* ------------------------------------------------------------------------
\* A function of the program applied on its own to one input
\* ------------------------------------------------------------------------

\* The session that is not started while a function is applied on its own
IdleSession ==
  /\ SessionInit
  /\ endpointType = "openai"
  /\ config.exists
  /\ ~typeAhead
  /\ maskIn = <<>>
  /\ maskOut = <<>>
  /\ maskDone = FALSE

\* The session before its first line
IdleChat == IdleSession /\ NoCall

\* The call returns out
Returns(op, out) ==
  /\ callOp = op
  /\ ~callDone
  /\ callOut' = out
  /\ callDone' = TRUE
  /\ UNCHANGED <<callOp, callIn, maskIn, maskOut, maskDone, sessionVars, handlerVars,
                 detector, updater>>

\* executeTool(toolName, args) on every tool name, argument value and
\* behaviour of the collaborator
ToolNames ==
  { s_set_config, s_get_config, ToolText.get_status, ToolText.start_gateway,
    ToolText.stop_gateway, ToolText.get_logs, s_nope }

ArgsValue(members) == [null |-> FALSE, members |-> members]

ToolArgs ==
  { [null |-> TRUE, members |-> <<>>],
    ArgsValue(<<>>),
    ArgsValue(<<[k |-> s_key, v |-> s_api_key]>>),
    ArgsValue(<<[k |-> s_key, v |-> s_port]>>),
    ArgsValue(<<[k |-> s_key, v |-> <<>>]>>),
    ArgsValue(<<[k |-> s_value, v |-> s_sk_new]>>),
    ArgsValue(<<[k |-> s_key, v |-> s_port], [k |-> s_value, v |-> s_sk_new]>>),
    ArgsValue(<<[k |-> s_key, v |-> s_api_key], [k |-> s_value, v |-> s_sk_new]>>),
    ArgsValue(<<[k |-> ToolText.lines, v |-> <<"5">>]>>) }

ToolConfigs ==
  { [c EXCEPT !.running = r, !.pid = IF r THEN 7 ELSE 0] : c \in Configs, r \in BOOLEAN }

ToolEnvs ==
  [startThrows : {<<>>, ToolText.spawn_enoent}, startRuns : BOOLEAN,
   stopThrows : {<<>>, ToolText.kill_eperm}, stopRuns : BOOLEAN,
   logsThrows : {<<>>, ToolText.tail_failed}, pid : {7}]

ToolInit ==
  /\ IdleSession
  /\ NoStartup
  /\ callOp = "executeTool"
  /\ callIn \in [toolName : ToolNames, args : ToolArgs, cfg : ToolConfigs, env : ToolEnvs]
  /\ callOut = <<>>
  /\ callDone = FALSE

ToolApply ==
  Returns("executeTool", executeTool(callIn.toolName, callIn.args, callIn.cfg, callIn.env))

ToolNext == ToolApply

ToolSpec == ToolInit /\ [][ToolNext]_vars

\* ------------------------------------------------------------------------
\* Properties
\* ------------------------------------------------------------------------

\* C1: a getResponse call makes at most 5 model requests, whatever the
\* backend answers, also when every turn requests tools.
C1_AtMostFiveRequests == \A h \in Handlers : nreq[h] <= 5

\* C1 witness: a cycle that made 5 requests, each answered with tool calls,
\* and was ended by the ceiling.
C1_Witness ==
  \E h \in Handlers : nreq[h] = 5 /\ outcome[h] = "ceiling" /\ pc[h] = "done"

\* The raw value of a sensitive key occurs in a text
Leaks(content) == \E v \in secrets : Includes(content, v)

\* The messages that have been sent to the model in some request
SentIndexes == {i \in 1..Len(messages) : \E h \in Handlers : i <= sentLen[h]}

\* C2: no tool result sent to a model carries the raw value of a sensitive
\* config key, for get_config with a key, get_config without a key and
\* set_config.
C2_NoRawSecretSent ==
  \A i \in SentIndexes : messages[i].role = "tool" => ~Leaks(messages[i].content)

\* C3: for a non-empty value, the placeholder starts with the fixed text and
\* never contains the full value nor more than its first 4 characters.
C3_MaskHidesValue ==
  (maskDone /\ maskIn # <<>>) =>
     /\ SubSeq(maskOut, 1, Len(s_redacted)) = s_redacted
     /\ ~Includes(maskOut, maskIn)
     /\ Len(maskIn) > 4 => ~Includes(maskOut, SubSeq(maskIn, 1, 5))

\* The tool calls of the turn handler h is executing, as the model sent them
TurnCalls(h) == messages[asstIdx[h]].tool_calls

Answers(m, call) ==
  m.role = "tool" /\ m.tool_call_id = call.id /\ m.name = call.name

C4_InOrderSoFar ==
  \A h \in Handlers : pc[h] = "exec" =>
     /\ Len(parsed[h]) = Len(TurnCalls(h))
     /\ Len(results[h]) < Len(TurnCalls(h))
     /\ \A i \in 1..Len(parsed[h]) :
          parsed[h][i].id = TurnCalls(h)[i].id /\ parsed[h][i].name = TurnCalls(h)[i].name
     /\ \A i \in 1..Len(results[h]) : Answers(results[h][i], TurnCalls(h)[i])

C4_OneAtATime ==
  \A h \in Handlers : (pc[h] = "exec" /\ results'[h] # results[h]) =>
     /\ Len(results'[h]) = Len(results[h]) + 1
     /\ SubSeq(results'[h], 1, Len(results[h])) = results[h]
     /\ Answers(results'[h][Len(results'[h])], TurnCalls(h)[Len(results[h]) + 1])

C4_AllAppended ==
  \A h \in Handlers : (pc[h] = "exec" /\ pc'[h] # "exec") =>
     LET new == SubSeq(messages', Len(messages) + 1, Len(messages'))
     IN  /\ Len(new) = Len(TurnCalls(h))
         /\ \A i \in 1..Len(new) : Answers(new[i], TurnCalls(h)[i])

\* C4: the tool calls of a turn are executed one at a time in the order the
\* model opened them, and when the last has returned exactly one tool-result
\* message per call is appended in that order, each with its call's id and name.
C4_SequentialDispatch ==
  /\ []C4_InOrderSoFar
  /\ [][C4_OneAtATime /\ C4_AllAppended]_vars

\* C4 witness: a turn with two calls of different ids has been executed and
\* its two results stand in the conversation.
C4_Witness ==
  \E h \in Handlers :
     /\ pc[h] # "exec" /\ asstIdx[h] > 0
     /\ Len(TurnCalls(h)) = 2
     /\ TurnCalls(h)[1].id # TurnCalls(h)[2].id
     /\ \E j \in 1..Len(messages) - 1 :
          /\ j > asstIdx[h]
          /\ Answers(messages[j], TurnCalls(h)[1])
          /\ Answers(messages[j + 1], TurnCalls(h)[2])

\* C5: once the tool calls of a turn are executed and their results
\* appended, the model is re-invoked at once with the extended conversation,
\* unless the cycle has made its 5 turns; whatever finish signal came.
C5_ReinvokeAfterTools ==
  [][\A h \in Handlers :
       (pc[h] = "exec" /\ pc'[h] # "exec" /\ outcome'[h] # "error") =>
          \/ iterationCount[h] >= 5
          \/ /\ pc'[h] = "stream"
             /\ nreq'[h] = nreq[h] + 1
             /\ sentLen'[h] = Len(messages')]_vars

\* C6: no two model turns and no two tool executions of a session are in
\* progress at the same time.
C6_OneAtATime ==
  /\ Cardinality({h \in Handlers : pc[h] = "stream"}) <= 1
  /\ Cardinality({h \in Handlers : pc[h] = "exec"}) <= 1

\* C7: the session ends on an exit or quit line only when no model turn and
\* no tool execution is in flight.
C7_ExitOnlyWhenAwaiting == exited => \A h \in Handlers : ~InFlight(h)

C8_SystemFirst ==
  /\ Len(messages) >= 1
  /\ messages[1] = Message("system", SystemPrompt)
  /\ \A i \in 2..Len(messages) : messages[i].role # "system"

C8_Extended ==
  /\ Len(messages') >= Len(messages)
  /\ SubSeq(messages', 1, Len(messages)) = messages

\* C8: the conversation is append-only and always starts with the one system
\* message of the session: no step removes, reorders or changes an earlier
\* message or adds a second system message.
C8_AppendOnly == []C8_SystemFirst /\ [][C8_Extended]_vars

\* C8 witness: a session that has executed tools and then met a failure.
C8_Witness ==
  \E h \in Handlers :
     /\ outcome[h] = "error"
     /\ \E i \in 1..Len(messages) : messages[i].role = "tool"

\* Every assistant message with tool calls is directly followed by exactly
\* one tool result per call, in order
WellFormed(msgs) ==
  \A i \in 1..Len(msgs) :
     (msgs[i].role = "assistant" /\ msgs[i].tool_calls # <<>>) =>
        /\ i + Len(msgs[i].tool_calls) <= Len(msgs)
        /\ \A j \in 1..Len(msgs[i].tool_calls) :
             /\ msgs[i + j].role = "tool"
             /\ msgs[i + j].tool_call_id = msgs[i].tool_calls[j].id
        /\ (i + Len(msgs[i].tool_calls) < Len(msgs)
              => msgs[i + Len(msgs[i].tool_calls) + 1].role # "tool")

\* C9: whenever the session awaits input, also after a failed cycle, every
\* assistant message with tool calls is followed by one tool result per call
\* (stated for a user who enters lines at the prompt only).
C9_HistoryWellFormed == (~typeAhead /\ AwaitingUserInput) => WellFormed(messages)

\* C10: every cycle terminates: a handler with a model turn or a tool
\* execution in flight eventually returns and the prompt is shown again.
C10_CycleTerminates ==
  \A h \in Handlers : InFlight(h) ~> (pc[h] = "done" /\ ~exited)

\* isSensitiveConfigKey(key) on two keys
UpperChar(c) ==
  CASE c = "a" -> "A" [] c = "e" -> "E" [] c = "i" -> "I" [] c = "k" -> "K"
    [] c = "m" -> "M" [] c = "n" -> "N" [] c = "o" -> "O" [] c = "p" -> "P"
    [] c = "r" -> "R" [] c = "t" -> "T" [] c = "y" -> "Y"
    [] OTHER -> c

\* The spellings of a word in upper and lower case letters
CaseVariants(w) ==
  { [i \in 1..Len(w) |-> IF i \in U THEN UpperChar(w[i]) ELSE w[i]] : U \in SUBSET (1..Len(w)) }

KeyWords ==
  { <<>>, <<"n", "a", "m", "e">>, <<"n", "a", "m">>, <<"t", "o", "k", "e", "n">>, <<"a", "_", "n", "a", "m", "e">>,
    <<"p", "o", "r", "t">>, <<"a", "p", "i", "k", "e", "y">> }

Keys == UNION {CaseVariants(w) : w \in KeyWords}

KeyInit ==
  /\ IdleSession
  /\ NoStartup
  /\ callOp = "isSensitiveConfigKey"
  /\ callIn \in [key : Keys, other : Keys]
  /\ callOut = <<>>
  /\ callDone = FALSE

KeyApply ==
  Returns("isSensitiveConfigKey",
          [key |-> isSensitiveConfigKey(callIn.key), other |-> isSensitiveConfigKey(callIn.other)])

KeyNext == KeyApply

KeySpec == KeyInit /\ [][KeyNext]_vars

\* The result object has a boolean success member
HasBooleanSuccess(r) ==
  \E i \in 1..Len(r) : r[i].k = s_success /\ r[i].t = "lit" /\ r[i].v \in {s_true, s_false}

\* C11: for every tool name, every argument value (null, missing members,
\* unknown keys) and every failure of the config file and of the process
\* collaborator, executeTool returns a result with a boolean success member.
C11_ExecuteToolTotal ==
  (callOp = "executeTool" /\ callDone) => HasBooleanSuccess(callOut.result)

\* C11 witness: executeTool has returned from a start_gateway call in which
\* the process collaborator raised an error, with the error in the result.
C11_Witness ==
  /\ callOp = "executeTool" /\ callDone
  /\ callIn.toolName = ToolText.start_gateway
  /\ ~callIn.args.null /\ ~callIn.cfg.running /\ callIn.env.startThrows # <<>>
  /\ \E i \in 1..Len(callOut.result) :
        callOut.result[i].k = s_error /\ callOut.result[i].v = ToolText.spawn_enoent

\* The names of the tools array
Registry ==
  { s_set_config, s_get_config, ToolText.get_status, ToolText.start_gateway,
    ToolText.stop_gateway, ToolText.get_logs }

\* Handler h executes a call of a tool outside the registry in this step
ExecutesUnknown(h) ==
  /\ pc[h] = "exec"
  /\ results'[h] # results[h]
  /\ parsed[h][Len(results[h]) + 1].name \notin Registry

\* The result of that call is the structured failure, under the call's id
UnknownFedBack(h) ==
  LET call == parsed[h][Len(results[h]) + 1]
      m == results'[h][Len(results'[h])]
  IN  /\ m.role = "tool"
      /\ m.tool_call_id = call.id
      /\ m.content = JSONStringify(UnknownToolResult(call.name))

\* Handler h leaves the execution of a turn that held a call of an unknown tool
LeavesUnknownTurn(h) ==
  /\ pc[h] = "exec"
  /\ pc'[h] # "exec"
  /\ \E i \in 1..Len(parsed[h]) : parsed[h][i].name \notin Registry

\* C12: a call of a tool that is not in the registry gets the result
\* {success:false, message:"Unknown tool: <name>"} as its tool result, and
\* the loop then re-invokes the model (unless the cycle has made its 5
\* turns) instead of raising an exception or ending the cycle.
C12_UnknownToolFedBack ==
  [][\A h \in Handlers :
       /\ ExecutesUnknown(h) => UnknownFedBack(h)
       /\ LeavesUnknownTurn(h) =>
            /\ outcome'[h] # "error"
            /\ Len(messages') = Len(messages) + Len(parsed[h])
            /\ pc'[h] = "stream" \/ iterationCount[h] >= 5]_vars

\* The result object reports a failure
FailureResult(r) ==
  \E i \in 1..Len(r) : r[i].k = s_success /\ r[i].v = s_false

HasMember(r, k) == \E i \in 1..Len(r) : r[i].k = k

\* The result executeTool gives for the call handler h executes next
NextResult(h) ==
  LET call == parsed[h][Len(results[h]) + 1]
  IN  executeTool(call.name, call.args, config, CalmEnv).result

\* A failed call does not abort the turn: its result becomes the call's tool
\* result, the next call of the turn is executed, and after the last call
\* all results of the turn are appended
FailureFedBack(h) ==
  LET call == parsed[h][Len(results[h]) + 1]
      m == results'[h][Len(results'[h])]
  IN  /\ Len(results'[h]) = Len(results[h]) + 1
      /\ m.role = "tool" /\ m.tool_call_id = call.id
      /\ m.content = JSONStringify(NextResult(h))
      /\ outcome'[h] # "error"
      /\ IF Len(results'[h]) < Len(parsed[h])
         THEN pc'[h] = "exec" /\ messages' = messages
         ELSE messages' = messages \o results'[h]

ExecutesFailing(h) ==
  pc[h] = "exec" /\ results'[h] # results[h] /\ FailureResult(NextResult(h))

\* C13 as stated: every failing tool execution yields a result with
\* success false and a message member, which is fed back as the call's tool
\* result while the remaining calls of the turn are still executed.
C13_FailureHasMessage ==
  [][\A h \in Handlers :
       ExecutesFailing(h) => (HasMember(NextResult(h), s_message) /\ FailureFedBack(h))]_vars

\* C13 amended: every failing tool execution yields a result with success
\* false and a message member (a failure a branch reports) or an error and a
\* note member (an exception caught), which is fed back as the call's tool
\* result while the remaining calls of the turn are still executed.
C13_FailureIsStructured ==
  [][\A h \in Handlers :
       ExecutesFailing(h) =>
          /\ \/ HasMember(NextResult(h), s_message)
             \/ HasMember(NextResult(h), s_error) /\ HasMember(NextResult(h), s_note)
          /\ FailureFedBack(h)]_vars

\* C13 witness: the first call of a two-call turn failed with a caught
\* exception, the second call was executed all the same and both results
\* stand in the conversation.
C13_Witness ==
  \E h \in Handlers :
     /\ pc[h] # "exec" /\ asstIdx[h] > 0
     /\ Len(TurnCalls(h)) = 2
     /\ Len(messages) >= asstIdx[h] + 2
     /\ Answers(messages[asstIdx[h] + 1], TurnCalls(h)[1])
     /\ Includes(messages[asstIdx[h] + 1].content, Quote(s_success) \o <<":">> \o s_false)
     /\ Includes(messages[asstIdx[h] + 1].content, Quote(s_error))
     /\ Answers(messages[asstIdx[h] + 2], TurnCalls(h)[2])

\* The arguments of a set_config call lack the key or the value
MalformedWrite(args) ==
  \/ args.null
  \/ ~Has(args.members, s_key)
  \/ ~Has(args.members, s_value)

\* C14: set_config denies a write whose key or value is missing: the result
\* has success false and the stored configuration is left unchanged.
C14_MalformedWriteDenied ==
  (/\ callOp = "executeTool" /\ callDone
   /\ callIn.toolName = s_set_config
   /\ MalformedWrite(callIn.args))
    => /\ FailureResult(callOut.result)
       /\ callOut.cfg = callIn.cfg

\* The keys whose values the get_config summary of CURRENT_STATUS.md exposes
importantKeys ==
  { <<"w", "o", "r", "k", "_", "m", "o", "d", "e">>,
    <<"r", "o", "u", "t", "e", "s">>,
    <<"m", "o", "d", "e", "l", "_", "p", "r", "o", "v", "i", "d", "e", "r", "_", "r", "o", "u", "t", "e", "s">>,
    <<"m", "u", "l", "t", "i", "p", "o", "r", "t", "_", "m", "o", "d", "e">>,
    <<"e", "n", "a", "b", "l", "e", "_", "f", "a", "c", "a", "d", "e">>,
    <<"f", "a", "c", "a", "d", "e", "_", "p", "o", "r", "t">>,
    <<"a", "d", "m", "i", "n", "_", "p", "o", "r", "t">>,
    <<"o", "p", "e", "n", "a", "i", "_", "p", "o", "r", "t">>,
    <<"a", "n", "t", "h", "r", "o", "p", "i", "c", "_", "p", "o", "r", "t">>,
    <<"m", "a", "r", "k", "e", "t", "p", "l", "a", "c", "e", "_", "e", "n", "a", "b", "l", "e", "d">>,
    <<"t", "e", "l", "e", "m", "e", "t", "r", "y", "_", "e", "n", "a", "b", "l", "e", "d">>,
    <<"a", "u", "t", "h", "_", "d", "i", "s", "a", "b", "l", "e", "d">> }

\* Texts of the get_config summary
SummaryText ==
  [ summary |-> <<"s", "u", "m", "m", "a", "r", "y">>,
    openai_api_key |-> <<"o", "p", "e", "n", "a", "i", "_", "a", "p", "i", "_", "k", "e", "y">>,
    configured |-> <<"\"", "o", "p", "e", "n", "a", "i", "_", "c", "o", "n", "f", "i", "g", "u", "r", "e", "d", "\"", ":", "t", "r", "u", "e">>,
    not_configured |-> <<"\"", "o", "p", "e", "n", "a", "i", "_", "c", "o", "n", "f", "i", "g", "u", "r", "e", "d", "\"", ":", "f", "a", "l", "s", "e">> ]

\* String(config.openai_api_key || '').trim().length > 0
OpenAIConfigured(kv) ==
  Has(kv, SummaryText.openai_api_key) /\ Trim(Get(kv, SummaryText.openai_api_key)) # <<>>

\* C15: get_config without a key returns a summary: no value of a key
\* outside the allow-list appears anywhere in the result, and
\* providers.openai_configured is true exactly when openai_api_key is
\* present with a non-blank value.
C15_BoundedSummary ==
  (/\ callOp = "executeTool" /\ callDone
   /\ callIn.toolName = s_get_config
   /\ ~callIn.args.null /\ ~Truthy(callIn.args.members, s_key)
   /\ callIn.cfg.exists)
    => LET text == JSONStringify(callOut.result)
       IN  /\ HasMember(callOut.result, SummaryText.summary)
           /\ \A i \in 1..Len(callIn.cfg.kv) :
                callIn.cfg.kv[i].k \notin importantKeys
                  => ~Includes(text, callIn.cfg.kv[i].v)
           /\ Includes(text, IF OpenAIConfigured(callIn.cfg.kv)
                               THEN SummaryText.configured
                               ELSE SummaryText.not_configured)

\* Some substring of s is one of the fixed patterns
HoldsPattern(s) ==
  \E i \in 1..Len(s) : \E j \in i..Len(s) : SubSeq(s, i, j) \in SensitivePatterns

\* C16: a key is classified sensitive if and only if its lower-cased form
\* contains one of the fixed patterns, so two keys that differ only in
\* letter case classify identically.
C16_CaseInsensitiveSubstring ==
  (callOp = "isSensitiveConfigKey" /\ callDone) =>
     /\ callOut.key = HoldsPattern(ToLowerCase(callIn.key))
     /\ ToLowerCase(callIn.key) = ToLowerCase(callIn.other) => callOut.key = callOut.other

\* C16 witness: two spellings of one key that differ in letter case, one of
\* them not in lower case, were both classified sensitive.
C16_Witness ==
  /\ callOp = "isSensitiveConfigKey" /\ callDone
  /\ callIn.key # callIn.other
  /\ ToLowerCase(callIn.key) = ToLowerCase(callIn.other)
  /\ callIn.key # ToLowerCase(callIn.key)
  /\ callOut.key /\ callOut.other

\* The stream opens a tool call: a tool_calls delta (OpenAI), a tool_use
\* block start (Anthropic), a functionCall part (Google)
OpensToolCall(type, stream) ==
  \E i \in 1..Len(stream) :
     IF type = "google" THEN stream[i].functionCalls # <<>>
     ELSE IF type = "anthropic"
       THEN stream[i].type = "content_block_start" /\ stream[i].block_type = "tool_use"
     ELSE stream[i].tool_calls # <<>>

RECURSIVE Concat(_)
Concat(seqs) == IF seqs = <<>> THEN <<>> ELSE Head(seqs) \o Concat(Tail(seqs))

\* What the backend sent, read off the raw stream: the tool-call deltas of an
\* OpenAI stream in arrival order, and the argument text of one slot index
SentDeltas(stream) == Concat([i \in 1..Len(stream) |-> stream[i].tool_calls])

SentSlotArguments(stream, index) ==
  LET ds == SelectSeq(SentDeltas(stream), LAMBDA d : d.index = index)
  IN  Concat([i \in 1..Len(ds) |-> ds[i].arguments])

\* The input JSON an Anthropic stream sent for the tool_use block opened at i
SentBlockInput(stream, i) ==
  LET mine(j) == /\ j > i
                 /\ stream[j].type = "content_block_delta"
                 /\ stream[j].delta_type = "input_json_delta"
                 /\ \A k \in (i + 1)..j : stream[k].type # "content_block_start"
  IN  Concat([j \in 1..Len(stream) |-> IF mine(j) THEN stream[j].partial_json ELSE <<>>])

\* The argument texts of the tool calls a stream opened, as the backend sent them
SentArguments(type, stream) ==
  IF type = "google" THEN {}
  ELSE IF type = "anthropic"
    THEN {SentBlockInput(stream, i) :
            i \in {j \in 1..Len(stream) : /\ stream[j].type = "content_block_start"
                                           /\ stream[j].block_type = "tool_use"}}
  ELSE {SentSlotArguments(stream, index) :
          index \in {SentDeltas(stream)[i].index : i \in 1..Len(SentDeltas(stream))}}

\* C17: a turn is followed by tool execution if and only if its stream opened
\* at least one tool call (the one exception being argument text that the
\* backend sent malformed, which ends the turn in an error); a turn that
\* opened none completes as stop and ends the cycle without a further request,
\* also when the stream had no terminal signal or a finish reason naming tool
\* calls.
C17_ToolPhaseIffCallOpened ==
  [][\A h \in Handlers : \A stream \in Streams(endpointType) :
       StreamEnd(h, stream) =>
          IF OpensToolCall(endpointType, stream)
          THEN /\ messages'[asstIdx'[h]].tool_calls # <<>>
               /\ \/ pc'[h] = "exec"
                  \/ /\ outcome'[h] = "error"
                     /\ \E sent \in SentArguments(endpointType, stream) : ParseThrows(sent)
          ELSE /\ messages'[asstIdx'[h]].tool_calls = <<>>
               /\ pc'[h] = "done" /\ outcome'[h] = "stop"
               /\ nreq'[h] = nreq[h]]_vars

\* The part of C17 that the code keeps: with the OpenAI-compatible and the
\* Google streams, and with every stream that opened no call.
C17_HoldsOutsideAnthropicTools ==
  [][\A h \in Handlers : \A stream \in Streams(endpointType) :
       StreamEnd(h, stream) /\ ~(endpointType = "anthropic" /\ OpensToolCall(endpointType, stream)) =>
          IF OpensToolCall(endpointType, stream)
          THEN \/ pc'[h] = "exec"
               \/ /\ outcome'[h] = "error"
                  /\ \E sent \in SentArguments(endpointType, stream) : ParseThrows(sent)
          ELSE pc'[h] = "done" /\ outcome'[h] = "stop" /\ nreq'[h] = nreq[h]]_vars

\* The OpenAI branch on its own: the argument text of slot 0 cut into
\* MaxFragments fragments and that of slot 1 into two, at every choice of cut
\* points (empty fragments included), the fragments of the two slots merged
\* in every order that keeps each slot's own order.
ArgsGetPort == StringifyObject(<<[k |-> s_key, v |-> s_port]>>)

Cuts(n, k) ==
  {c \in [1..(k - 1) -> 0..n] : \A i \in 1..(k - 1) : \A j \in i..(k - 1) : c[i] <= c[j]}

Fragments(str, c) ==
  [i \in 1..(Len(c) + 1) |->
     SubSeq(str, (IF i = 1 THEN 0 ELSE c[i - 1]) + 1,
                 IF i = Len(c) + 1 THEN Len(str) ELSE c[i])]

\* The deltas of the merged stream; places is the set of positions taken by
\* the fragments of slot 1.  The first delta of a slot carries its id and name.
MergedDeltas(fragsA, fragsB, places) ==
  [i \in 1..(Len(fragsA) + Len(fragsB)) |->
     LET nb == Cardinality({q \in places : q <= i})
     IN  IF i \in places
         THEN Delta(1, (IF nb = 1 THEN s_call_b ELSE <<>>),
                       (IF nb = 1 THEN s_get_config ELSE <<>>), fragsB[nb])
         ELSE Delta(0, (IF i - nb = 1 THEN s_call_a ELSE <<>>),
                       (IF i - nb = 1 THEN s_get_config ELSE <<>>), fragsA[i - nb])]

DeltaStream(deltas) ==
  [i \in 1..Len(deltas) |-> Chunk(<<>>, <<deltas[i]>>, "none")] \o <<Finish("tool_calls")>>

DeltaInputs ==
  {[a |-> ArgsGetPort, b |-> ArgsGetAll,
    stream |-> DeltaStream(MergedDeltas(Fragments(ArgsGetPort, ca), Fragments(ArgsGetAll, cb), places))] :
     ca \in Cuts(Len(ArgsGetPort), MaxFragments),
     cb \in Cuts(Len(ArgsGetAll), 2),
     places \in {q \in SUBSET (1..(MaxFragments + 2)) : Cardinality(q) = 2}}

DeltaInit ==
  /\ IdleSession
  /\ NoStartup
  /\ callOp = "consume"
  /\ callIn \in DeltaInputs
  /\ callOut = <<>>
  /\ callDone = FALSE

DeltaApply ==
  Returns("consume", ConsumeStream("openai", TurnStart, callIn.stream, 0).toolCalls)

DeltaNext == DeltaApply

DeltaSpec == DeltaInit /\ [][DeltaNext]_vars

\* C18: with index-addressed deltas, whatever the number and the lengths of
\* the fragments and however the fragments of two slots are interleaved, at
\* the end of the stream the argument text of each slot is the original text,
\* character for character (and is the concatenation, in arrival order, of
\* the fragments sent for that slot index).
C18_FragmentsReassembled ==
  (callOp = "consume" /\ callDone) =>
     /\ Len(callOut) = 2
     /\ callOut[1].arguments = callIn.a
     /\ callOut[2].arguments = callIn.b
     /\ callOut[1].arguments = SentSlotArguments(callIn.stream, 0)
     /\ callOut[2].arguments = SentSlotArguments(callIn.stream, 1)

\* C18 witness: a stream whose MaxFragments fragments of slot 0 are all
\* non-empty and of different lengths, with the two non-empty fragments of
\* slot 1 arriving between them, has been consumed and both argument texts
\* are the originals.
C18_Witness ==
  /\ callOp = "consume" /\ callDone
  /\ \E i, j, k, l \in 1..Len(callIn.stream) :
        /\ i < j /\ j < k /\ k < l
        /\ \A m \in {i, j, k, l} : callIn.stream[m].tool_calls # <<>>
        /\ callIn.stream[i].tool_calls[1].index = 0
        /\ callIn.stream[j].tool_calls[1].index = 1
        /\ callIn.stream[k].tool_calls[1].index = 0
        /\ callIn.stream[l].tool_calls[1].index = 1
        /\ \A m \in {i, j, k, l} : callIn.stream[m].tool_calls[1].arguments # <<>>
        /\ Len(callIn.stream[i].tool_calls[1].arguments) # Len(callIn.stream[k].tool_calls[1].arguments)
  /\ \A m \in 1..(MaxFragments + 2) : callIn.stream[m].tool_calls[1].arguments # <<>>
  /\ callOut[1].arguments = ArgsGetPort
  /\ callOut[2].arguments = ArgsGetAll

\* The assistant message of handler h's turn holds a tool call whose
\* argument text is not valid JSON
UnparsableCall(msgs, idx) ==
  \E i \in 1..Len(msgs[idx].tool_calls) : ParseThrows(msgs[idx].tool_calls[i].arguments)

\* C19: when the stream of a turn ends with a tool call whose argument text
\* is not valid JSON, the cycle ends in the error exit (the catch block, which
\* prints the error), nothing is dispatched or executed for any call of that
\* turn, the configuration is unchanged and no tool result is appended.
C19_ParseFailureEndsCycle ==
  [][\A h \in Handlers : \A stream \in Streams(endpointType) :
       (StreamEnd(h, stream) /\ UnparsableCall(messages', asstIdx'[h])) =>
          /\ pc'[h] = "done" /\ outcome'[h] = "error"
          /\ parsed'[h] = <<>> /\ results'[h] = <<>>
          /\ config' = config
          /\ Len(messages') = Len(messages) + 1
          /\ nreq'[h] = nreq[h]]_vars

\* C19, the same as a state property: tools are executed only for a turn all
\* of whose argument texts parsed.
C19_ExecuteOnlyParsed ==
  \A h \in Handlers : pc[h] = "exec" => ~UnparsableCall(messages, asstIdx[h])

\* C19 witness: a cycle has ended in the error exit on a turn of two calls,
\* a well-formed set_config and a get_config whose arguments are cut short,
\* and neither has a result.
C19_Witness ==
  \E h \in Handlers :
     /\ pc[h] = "done" /\ outcome[h] = "error"
     /\ asstIdx[h] = Len(messages)
     /\ Len(messages[asstIdx[h]].tool_calls) = 2
     /\ messages[asstIdx[h]].tool_calls[1].name = s_set_config
     /\ ~ParseThrows(messages[asstIdx[h]].tool_calls[1].arguments)
     /\ ParseThrows(messages[asstIdx[h]].tool_calls[2].arguments)
     /\ messages[asstIdx[h]].tool_calls[2].arguments # <<>>
     /\ results[h] = <<>>

\* ------------------------------------------------------------------------
\* The request sent to the backend (lib/chat/client.js).  null is written
\* <<>>, as in the messages.
\* ------------------------------------------------------------------------
AnthropicMessageOf(msg) ==
  IF msg.role = "tool"
  THEN [role |-> "user", content |-> <<>>,
        blocks |-> <<[type |-> "tool_result", tool_use_id |-> msg.tool_call_id,
                      content |-> msg.content]>>]
  ELSE [role |-> msg.role, content |-> msg.content, blocks |-> <<>>]

convertMessagesToAnthropic(msgs) ==
  LET sys == SelectSeq(msgs, LAMBDA m : m.role = "system")
      rest == SelectSeq(msgs, LAMBDA m : m.role \in {"user", "assistant", "tool"})
  IN  [system |-> IF sys = <<>> THEN <<>> ELSE sys[Len(sys)].content,
       anthropicMessages |-> [i \in 1..Len(rest) |-> AnthropicMessageOf(rest[i])]]

\* response is JSON.parse(msg.content), the object being written by its text
GoogleMessageOf(msg) ==
  IF msg.role = "tool"
  THEN [role |-> "function",
        parts |-> <<[kind |-> "functionResponse", text |-> <<>>,
                     name |-> msg.name, response |-> msg.content]>>]
  ELSE [role |-> IF msg.role = "assistant" THEN "model" ELSE "user",
        parts |-> <<[kind |-> "text", text |-> msg.content,
                     name |-> <<>>, response |-> <<>>]>>]

convertMessagesToGoogle(msgs) ==
  LET sys == SelectSeq(msgs, LAMBDA m : m.role = "system")
      rest == SelectSeq(msgs, LAMBDA m : m.role \in {"user", "assistant", "tool"})
  IN  [systemInstruction |-> IF sys = <<>> THEN <<>> ELSE sys[Len(sys)].content,
       googleMessages |-> [i \in 1..Len(rest) |-> GoogleMessageOf(rest[i])]]

\* The messages of the request of each backend family; the Google request
\* carries all but the last as history and the parts of the last as the
\* message sent, the OpenAI request carries the messages array itself
createStreamingChat(type, msgs) ==
  IF type = "anthropic" THEN convertMessagesToAnthropic(msgs).anthropicMessages
  ELSE IF type = "google" THEN convertMessagesToGoogle(msgs).googleMessages
  ELSE msgs

Elements(seq) == {seq[i] : i \in 1..Len(seq)}

\* The tool calls and the tool results of a conversation
CanonicalCalls(msgs) ==
  UNION {{[id |-> c.id, name |-> c.name, arguments |-> c.arguments] :
            c \in {x \in Elements(m.tool_calls) : ~x.hole}} :
         m \in {x \in Elements(msgs) : x.role = "assistant"}}

CanonicalResults(msgs) ==
  {[id |-> m.tool_call_id, name |-> m.name] : m \in {x \in Elements(msgs) : x.role = "tool"}}

\* The tool calls and the tool results a backend can read in a request:
\* tool_use and tool_result blocks (Anthropic, linked by id), functionCall
\* and functionResponse parts (Google, linked by name), tool_calls and tool
\* messages (OpenAI)
NativeCalls(type, req) ==
  IF type = "anthropic"
  THEN UNION {{[id |-> b.id, name |-> b.name, arguments |-> b.input] :
                 b \in {x \in Elements(m.blocks) : x.type = "tool_use"}} : m \in Elements(req)}
  ELSE IF type = "google"
  THEN UNION {{[id |-> <<>>, name |-> q.name, arguments |-> q.args] :
                 q \in {x \in Elements(m.parts) : x.kind = "functionCall"}} : m \in Elements(req)}
  ELSE CanonicalCalls(req)

NativeResults(type, req) ==
  IF type = "anthropic"
  THEN UNION {{[id |-> b.tool_use_id, name |-> <<>>] :
                 b \in {x \in Elements(m.blocks) : x.type = "tool_result"}} : m \in Elements(req)}
  ELSE IF type = "google"
  THEN UNION {{[id |-> <<>>, name |-> q.name] :
                 q \in {x \in Elements(m.parts) : x.kind = "functionResponse"}} : m \in Elements(req)}
  ELSE CanonicalResults(req)

Linked(type, result, call) ==
  IF type = "google" THEN result.name = call.name ELSE result.id = call.id

\* The request built from msgs carries every tool call and every tool result
\* of msgs, and each tool result of the request has its call in the request
Lossless(type, msgs) ==
  LET req == createStreamingChat(type, msgs)
  IN  /\ \A c \in CanonicalCalls(msgs) : \E n \in NativeCalls(type, req) :
            /\ n.name = c.name /\ n.arguments = c.arguments
            /\ type # "google" => n.id = c.id
      /\ \A r \in CanonicalResults(msgs) : \E n \in NativeResults(type, req) :
            /\ type # "google" => n.id = r.id
            /\ type # "anthropic" => n.name = r.name
      /\ \A n \in NativeResults(type, req) : \E c \in NativeCalls(type, req) :
            Linked(type, n, c)

\* C20: for every request in flight, the backend-native request built from
\* the conversation carries each assistant tool call (id, name, arguments)
\* and each tool result with its call id or tool name, and every tool result
\* of the request has its call in the same request, in all three families.
C20_OutboundLossless ==
  \A h \in Handlers :
     pc[h] = "stream" => Lossless(endpointType, SubSeq(messages, 1, sentLen[h]))

\* The part of C20 that the code keeps: the OpenAI-compatible request, which
\* is the messages array itself.
C20_HoldsForOpenAI ==
  \A h \in Handlers :
     (pc[h] = "stream" /\ endpointType = "openai") =>
        Lossless(endpointType, SubSeq(messages, 1, sentLen[h]))

\* A request that carries a tool result is in flight on the OpenAI family
C20_OpenAIToolRequest ==
  \E h \in Handlers :
     /\ pc[h] = "stream" /\ endpointType = "openai"
     /\ CanonicalResults(SubSeq(messages, 1, sentLen[h])) # {}

\* ------------------------------------------------------------------------
\* Endpoint detection (lib/chat/detector.js) and startChat (lib/chat/index.js).
\* detector is the record
\*   endpoints  this.endpoints of the LLMDetector
\*   env        the process environment and the local network: the servers
\*              that answer their probe (up), TOKLIGENCE_LLM_ENDPOINT being
\*              set (customEndpoint), the vendors whose API key is set (keys)
\*   passes     detectAll calls on this detector
\*   probes     the requests sent by the latest detectAll, in order
\*   raised     the latest detectAll rejected instead of returning
\*   op, ret    the latest call and the sequence it returned; null and a
\*              single descriptor are written <<>> and <<d>>
\*   exitCode   of process.exit, -1 while the process runs
\*   printed    the operator-facing messages printed by the latest call
\*   session    a ChatSession was created and started
\* ------------------------------------------------------------------------
LocalServers == {"ollama", "vllm", "lmstudio", "gateway"}
Vendors == {"openai", "anthropic", "google"}

\* How the probe of a server that is not up fails: nothing listens on the
\* port, the request times out, or the answer has a status outside 2xx
FailureOf(server) ==
  IF server \in {"ollama", "gateway"} THEN "refused"
  ELSE IF server \in {"vllm", "custom"} THEN "timeout"
  ELSE "non2xx"

Descriptor(type, priority, free, local) ==
  [type |-> type, priority |-> priority, free |-> free, local |-> local]

\* axios.get: status 200 with the expected body if the server is up, else the
\* promise rejects (timeout, connection refused, status outside 2xx)
Probe(env, server) ==
  IF server \in env.up THEN [status |-> 200, threw |-> FALSE]
  ELSE [status |-> IF FailureOf(server) = "non2xx" THEN 503 ELSE 0, threw |-> TRUE]

\* A probing method with its try/catch: acc is [endpoints, probes, raised]
Probing(acc, env, server, descriptor) ==
  LET response == Probe(env, server)
      sent == [acc EXCEPT !.probes = Append(@, server)]
  IN  IF response.threw THEN sent
      ELSE IF response.status = 200
        THEN [sent EXCEPT !.endpoints = Append(@, descriptor)]
      ELSE sent

\* The same method without a catch block
ProbingUncaught(acc, env, server, descriptor) ==
  LET response == Probe(env, server)
      sent == [acc EXCEPT !.probes = Append(@, server)]
  IN  IF response.threw THEN [sent EXCEPT !.raised = TRUE]
      ELSE IF response.status = 200
        THEN [sent EXCEPT !.endpoints = Append(@, descriptor)]
      ELSE sent

detectOllama(acc, env) == Probing(acc, env, "ollama", Descriptor("ollama", 1, TRUE, TRUE))

detectVLLM(acc, env) == Probing(acc, env, "vllm", Descriptor("vllm", 2, TRUE, TRUE))

detectLMStudioUncaught(acc, env) ==
  ProbingUncaught(acc, env, "lmstudio", Descriptor("lmstudio", 3, TRUE, TRUE))

detectLMStudio(acc, env) == Probing(acc, env, "lmstudio", Descriptor("lmstudio", 3, TRUE, TRUE))

detectCustomEndpoint(acc, env) ==
  IF ~env.customEndpoint THEN acc
  ELSE Probing(acc, env, "custom", Descriptor("custom", 4, FALSE, FALSE))

Keyed(acc, env, vendor, descriptor) ==
  IF vendor \in env.keys THEN [acc EXCEPT !.endpoints = Append(@, descriptor)] ELSE acc

detectCommercialLLMs(acc, env) ==
  Keyed(Keyed(Keyed(acc, env, "openai", Descriptor("openai", 5, FALSE, FALSE)),
              env, "anthropic", Descriptor("anthropic", 6, FALSE, FALSE)),
        env, "google", Descriptor("google", 7, FALSE, FALSE))

detectGateway(acc, env) == Probing(acc, env, "gateway", Descriptor("gateway", 8, TRUE, TRUE))

\* await of the next method: skipped once an earlier one has rejected
Await(acc, after) == IF acc.raised THEN acc ELSE after

\* detectAll on a detector holding endpoints: [endpoints, probes, raised]
detectAll(endpoints, env) ==
  LET a0 == [endpoints |-> endpoints, probes |-> <<>>, raised |-> FALSE]
      a1 == detectOllama(a0, env)
      a2 == Await(a1, detectVLLM(a1, env))
      a3 == Await(a2, detectLMStudio(a2, env))
      a4 == Await(a3, detectCustomEndpoint(a3, env))
      a5 == Await(a4, detectCommercialLLMs(a4, env))
  IN  Await(a5, detectGateway(a5, env))

\* Array.prototype.sort((a, b) => a.priority - b.priority): stable, in place
RECURSIVE InsertByPriority(_, _)
InsertByPriority(sorted, d) ==
  IF sorted = <<>> THEN <<d>>
  ELSE IF sorted[Len(sorted)].priority <= d.priority THEN Append(sorted, d)
  ELSE Append(InsertByPriority(SubSeq(sorted, 1, Len(sorted) - 1), d), sorted[Len(sorted)])

RECURSIVE SortByPriority(_)
SortByPriority(endpoints) ==
  IF endpoints = <<>> THEN <<>>
  ELSE InsertByPriority(SortByPriority(SubSeq(endpoints, 1, Len(endpoints) - 1)),
                        endpoints[Len(endpoints)])

\* A getBest that takes the first descriptor as it stands
getBestUnsorted(endpoints) ==
  [endpoints |-> endpoints,
   ret |-> IF Len(endpoints) = 0 THEN <<>> ELSE <<endpoints[1]>>]

\* getBest and getAll: [endpoints, ret]
getBest(endpoints) ==
  IF Len(endpoints) = 0 THEN [endpoints |-> endpoints, ret |-> <<>>]
  ELSE [endpoints |-> SortByPriority(endpoints), ret |-> <<SortByPriority(endpoints)[1]>>]

getAll(endpoints) ==
  [endpoints |-> SortByPriority(endpoints), ret |-> SortByPriority(endpoints)]

\* The environments: any set of servers up, the custom endpoint unset, set
\* and answering, or set and failing, any set of vendor keys
Environments ==
  {[up |-> up, customEndpoint |-> custom, keys |-> keys] :
     up \in SUBSET (LocalServers \cup {"custom"}), custom \in BOOLEAN,
     keys \in SUBSET Vendors}

Consistent(env) == "custom" \in env.up => env.customEndpoint

\* Between two calls the environment stays or changes in one place: a server
\* starts or stops, the custom endpoint is set or unset, a key is set or unset
Toggle(set, x) == IF x \in set THEN set \ {x} ELSE set \cup {x}

Neighbours(env) ==
  {e \in ({env}
          \cup {[env EXCEPT !.up = Toggle(@, x)] : x \in LocalServers \cup {"custom"}}
          \cup {[env EXCEPT !.customEndpoint = ~@, !.up = @ \ {"custom"}]}
          \cup {[env EXCEPT !.keys = Toggle(@, v)] : v \in Vendors}) : Consistent(e)}

Running == detector.exitCode = -1

DetectorInit ==
  /\ IdleChat
  /\ updater = <<>>
  /\ detector \in {[endpoints |-> <<>>, env |-> env, passes |-> 0, probes |-> <<>>,
                     raised |-> FALSE, op |-> "new", ret |-> <<>>, exitCode |-> -1,
                     printed |-> {}, session |-> FALSE] :
                    env \in {e \in Environments : Consistent(e)}}

DetectorStep(next) ==
  /\ detector' = next
  /\ UNCHANGED <<sessionVars, handlerVars, maskIn, maskOut, maskDone,
                 callOp, callIn, callOut, callDone, updater>>

\* new LLMDetector()
NewDetector ==
  /\ Running /\ ~detector.session
  /\ detector.passes > 0
  /\ DetectorStep([detector EXCEPT !.endpoints = <<>>, !.passes = 0, !.probes = <<>>,
                                   !.raised = FALSE, !.op = "new", !.ret = <<>>,
                                   !.printed = {}])

\* detector.detectAll() in the environment env
DetectAll(env) ==
  /\ Running /\ ~detector.session
  /\ detector.passes < MaxPasses
  /\ \E acc \in {detectAll(detector.endpoints, env)} :
        DetectorStep([detector EXCEPT !.endpoints = acc.endpoints, !.env = env,
                                     !.passes = @ + 1, !.probes = acc.probes,
                                     !.raised = acc.raised, !.op = "detectAll",
                                     !.ret = IF acc.raised THEN <<>> ELSE acc.endpoints,
                                     !.printed = IF env.customEndpoint /\ "custom" \notin env.up
                                                 THEN {"custom-unreachable"} ELSE {}])

GetBest ==
  /\ Running /\ ~detector.session
  /\ \E r \in {getBest(detector.endpoints)} :
        DetectorStep([detector EXCEPT !.endpoints = r.endpoints, !.op = "getBest", !.ret = r.ret,
                                     !.printed = {}])

GetAll ==
  /\ Running /\ ~detector.session
  /\ \E r \in {getAll(detector.endpoints)} :
        DetectorStep([detector EXCEPT !.endpoints = r.endpoints, !.op = "getAll", !.ret = r.ret,
                                     !.printed = {}])

\* A selectEndpoint that prints the options and returns undefined
selectEndpointNoExit(endpoints) ==
  LET all == getAll(endpoints)
  IN  IF Len(all.ret) = 0
      THEN [endpoints |-> all.endpoints, ret |-> <<>>, printed |-> {"options"}, exitCode |-> -1]
      ELSE IF Len(all.ret) = 1
      THEN [endpoints |-> all.endpoints, ret |-> <<all.ret[1]>>, printed |-> {"using"},
            exitCode |-> -1]
      ELSE [endpoints |-> getBest(all.endpoints).endpoints, ret |-> getBest(all.endpoints).ret,
            printed |-> {"auto-selecting"}, exitCode |-> -1]

\* selectEndpoint(detector): [endpoints, ret, printed, exitCode], exitCode
\* being that of process.exit, -1 if it is not called
selectEndpoint(endpoints) ==
  LET all == getAll(endpoints)
  IN  IF Len(all.ret) = 0
      THEN [endpoints |-> all.endpoints, ret |-> <<>>, printed |-> {"options"}, exitCode |-> 1]
      ELSE IF Len(all.ret) = 1
      THEN [endpoints |-> all.endpoints, ret |-> <<all.ret[1]>>, printed |-> {"using"},
            exitCode |-> -1]
      ELSE [endpoints |-> getBest(all.endpoints).endpoints, ret |-> getBest(all.endpoints).ret,
            printed |-> {"auto-selecting"}, exitCode |-> -1]

SelectEndpoint ==
  /\ Running /\ ~detector.session
  /\ \E r \in {selectEndpoint(detector.endpoints)} :
        DetectorStep([detector EXCEPT !.endpoints = r.endpoints, !.op = "selectEndpoint",
                                     !.ret = r.ret, !.printed = r.printed,
                                     !.exitCode = r.exitCode])

\* startChat after selectEndpoint has returned: the client, the knowledge
\* base and the ChatSession are created and the session is started
CreateSession ==
  /\ Running /\ ~detector.session
  /\ detector.op = "selectEndpoint"
  /\ DetectorStep([detector EXCEPT !.session = TRUE, !.printed = {}])

\* one of these steps throws: the catch block of startChat
StartChatFails ==
  /\ Running /\ ~detector.session
  /\ detector.op = "selectEndpoint"
  /\ DetectorStep([detector EXCEPT !.printed = {"failed-to-start"}, !.exitCode = 1])

DetectorNext ==
  \/ NewDetector
  \/ \E env \in Neighbours(detector.env) : DetectAll(env)
  \/ GetBest
  \/ GetAll
  \/ SelectEndpoint
  \/ CreateSession
  \/ StartChatFails

DetectorSpec == DetectorInit /\ [][DetectorNext]_vars

\* The descriptors are in ascending order of priority
Ascending(endpoints) ==
  \A i, j \in 1..Len(endpoints) : i < j => endpoints[i].priority <= endpoints[j].priority

\* What a pass can detect in env: the servers that answer and the vendors
\* whose key is set
Detectable(env) == env.up \cup env.keys

Types(endpoints) == {endpoints[i].type : i \in 1..Len(endpoints)}

\* C21: whatever servers answer and whatever credentials are present, the
\* sequence detectAll returns is in ascending order of priority.
C21_DetectAllOrdered ==
  (detector.op = "detectAll" /\ ~detector.raised) => Ascending(detector.ret)

\* The part of C21 that the code keeps: the first pass of a detector returns
\* the descriptors in ascending order of priority.
C21_FirstPassOrdered ==
  (detector.op = "detectAll" /\ detector.passes = 1) =>
     /\ Ascending(detector.ret)
     /\ Types(detector.ret) = Detectable(detector.env)
     /\ Len(detector.ret) = Cardinality(Detectable(detector.env))

\* A first pass has returned all eight descriptors
C21_AllEightDetected ==
  /\ detector.op = "detectAll" /\ detector.passes = 1
  /\ Len(detector.ret) = 8
  /\ \A i \in 1..8 : detector.ret[i].priority = i

\* The two sequences hold the same descriptors the same number of times
SameDescriptors(a, b) ==
  /\ Len(a) = Len(b)
  /\ \A t \in LocalServers \cup {"custom"} \cup Vendors :
        Cardinality({i \in 1..Len(a) : a[i].type = t})
          = Cardinality({i \in 1..Len(b) : b[i].type = t})

\* ret is null if endpoints is empty, else one of its descriptors of the
\* lowest priority number
Lowest(ret, endpoints) ==
  IF Len(endpoints) = 0 THEN ret = <<>>
  ELSE /\ Len(ret) = 1
       /\ \E i \in 1..Len(endpoints) : endpoints[i] = ret[1]
       /\ \A i \in 1..Len(endpoints) : ret[1].priority <= endpoints[i].priority

\* C22: getBest returns the descriptor of the lowest priority number among
\* those detected, or null when there is none; it sends no probe, runs no
\* pass and leaves the detected descriptors the same (selectEndpoint, when
\* several are detected, returns that descriptor too).
C22_GetBestSelectsLowest ==
  [][/\ GetBest =>
          /\ Lowest(detector'.ret, detector.endpoints)
          /\ SameDescriptors(detector'.endpoints, detector.endpoints)
          /\ detector'.probes = detector.probes
          /\ detector'.passes = detector.passes
          /\ detector'.env = detector.env
          /\ detector'.exitCode = detector.exitCode
     /\ (SelectEndpoint /\ Len(detector.endpoints) > 0) =>
          /\ Lowest(detector'.ret, detector.endpoints)
          /\ SameDescriptors(detector'.endpoints, detector.endpoints)
          /\ detector'.probes = detector.probes]_vars

\* C22 witness: getBest has returned the Ollama descriptor on a detector
\* whose second pass found Ollama after its first pass had found other
\* backends, so that the descriptor was not the first one pushed.
C22_Witness ==
  /\ detector.op = "getBest"
  /\ detector.passes = 2
  /\ detector.ret # <<>> /\ detector.ret[1].type = "ollama"
  /\ Cardinality({i \in 1..Len(detector.endpoints) : detector.endpoints[i].type = "ollama"}) = 1
  /\ Len(detector.endpoints) >= 3
  /\ detector.endpoints[1].type = "ollama"

\* getBest has returned null
C22_NullReturned ==
  detector.op = "getBest" /\ detector.passes = 1 /\ detector.ret = <<>>

\* The requests a pass sends in env, in order: every local server, and the
\* custom endpoint between LM Studio and the gateway when it is configured
ExpectedProbes(env) ==
  <<"ollama", "vllm", "lmstudio">>
    \o (IF env.customEndpoint THEN <<"custom">> ELSE <<>>) \o <<"gateway">>

\* C23: whichever probes fail, detectAll returns without raising, has sent
\* the probe of every candidate (the failing ones and those after them), and
\* returns the candidates whose probe or credential check succeeded, each
\* once and no other.
C23_FailureOnlyExcludes ==
  detector.op = "detectAll" =>
     /\ ~detector.raised
     /\ detector.probes = ExpectedProbes(detector.env)
     /\ Types(detector.ret) = Detectable(detector.env)
     /\ Len(detector.ret) = Cardinality(Detectable(detector.env))

\* The part of C23 that the code keeps: no pass raises, every pass sends
\* every probe, the first pass of a detector returns exactly the candidates
\* that succeeded, and a later pass returns them after those of earlier passes.
C23_HoldsOnFirstPass ==
  detector.op = "detectAll" =>
     /\ ~detector.raised
     /\ detector.probes = ExpectedProbes(detector.env)
     /\ Detectable(detector.env) \subseteq Types(detector.ret)
     /\ detector.passes = 1 =>
           /\ Types(detector.ret) = Detectable(detector.env)
           /\ Len(detector.ret) = Cardinality(Detectable(detector.env))

\* A first pass in which the probes of Ollama, LM Studio and the custom
\* endpoint failed has returned vLLM, a vendor and the gateway
C23_FailingProbesPassed ==
  /\ detector.op = "detectAll" /\ detector.passes = 1
  /\ detector.env.customEndpoint
  /\ detector.env.up = {"vllm", "gateway"}
  /\ detector.env.keys = {"google"}
  /\ Len(detector.ret) = 3

\* The descriptors held for a vendor
VendorsHeld(endpoints) == Types(endpoints) \cap Vendors

\* C24: after a pass, a vendor descriptor is held exactly when the vendor's
\* credential is present in the environment; and when only the Anthropic
\* credential is present and no server answers, getAll returns one
\* descriptor and getBest returns the Anthropic descriptor of priority 6.
C24_VendorIffCredential ==
  /\ detector.passes > 0 =>
        VendorsHeld(detector.endpoints) = detector.env.keys
  /\ (detector.passes > 0 /\ detector.env.keys = {"anthropic"} /\ detector.env.up = {}) =>
        /\ detector.op = "getAll" => Len(detector.ret) = 1
        /\ detector.op = "getBest" =>
              /\ Len(detector.ret) = 1
              /\ detector.ret[1].type = "anthropic" /\ detector.ret[1].priority = 6

\* The part of C24 that the code keeps: the same on a detector that has run
\* one pass.
C24_HoldsOnFirstPass ==
  /\ detector.passes = 1 =>
        VendorsHeld(detector.endpoints) = detector.env.keys
  /\ (detector.passes = 1 /\ detector.env.keys = {"anthropic"} /\ detector.env.up = {}) =>
        /\ detector.op = "getAll" => Len(detector.ret) = 1
        /\ detector.op = "getBest" =>
              /\ Len(detector.ret) = 1
              /\ detector.ret[1].type = "anthropic" /\ detector.ret[1].priority = 6

\* getBest has returned the Anthropic descriptor after one pass in which only
\* the Anthropic credential was present
C24_AnthropicOnly ==
  /\ detector.passes = 1 /\ detector.op = "getBest"
  /\ detector.env.keys = {"anthropic"} /\ detector.env.up = {}
  /\ detector.ret = <<Descriptor("anthropic", 6, FALSE, FALSE)>>

\* C25: after any number of passes on a detector, getAll returns at most one
\* descriptor per backend kind, and exactly the descriptors of the most
\* recent pass.
C25_OnlyLatestPass ==
  (detector.op = "getAll" /\ detector.passes > 0) =>
     /\ \A i, j \in 1..Len(detector.ret) :
           detector.ret[i].type = detector.ret[j].type => i = j
     /\ Types(detector.ret) = Detectable(detector.env)

\* A detector is not reused in startChat: each pass runs on a detector that
\* was just constructed, and getAll then reflects that pass only.
C25_HoldsOnNewDetector ==
  (detector.op = "getAll" /\ detector.passes = 1) =>
     /\ \A i, j \in 1..Len(detector.ret) :
           detector.ret[i].type = detector.ret[j].type => i = j
     /\ Types(detector.ret) = Detectable(detector.env)

\* C26: when selectEndpoint is reached with no backend detected, the options
\* message is printed and the process exits with code 1; nothing runs after
\* an exit, and a chat session is only ever created from an endpoint that
\* selectEndpoint returned, so that no session and no model request follows.
C26_NoBackendEndsStart ==
  [][/\ (SelectEndpoint /\ Len(detector.endpoints) = 0) =>
          /\ detector'.exitCode = 1
          /\ detector'.printed = {"options"}
          /\ ~detector'.session
     /\ detector.exitCode # -1 => detector' = detector
     /\ (detector'.session /\ ~detector.session) =>
          /\ detector.op = "selectEndpoint"
          /\ Len(detector.ret) = 1
          /\ detector.exitCode = -1
     /\ \A h \in Handlers : ~detector'.session => nreq'[h] = 0]_vars

\* C26 witness: startChat has ended in selectEndpoint with exit code 1 and the
\* options message, after a pass in which the configured custom endpoint and
\* every local server failed to answer and no credential was present.
C26_Witness ==
  /\ detector.op = "selectEndpoint"
  /\ detector.passes = 1
  /\ detector.env.customEndpoint /\ detector.env.up = {} /\ detector.env.keys = {}
  /\ detector.exitCode = 1
  /\ detector.printed = {"options"}
  /\ ~detector.session

\* C27: when a cycle has ended, the maximum-iterations notice was printed if
\* and only if the cycle ended at the ceiling (the loop was left with the
\* fifth turn still asking for tools); a cycle that ended with a stop turn
\* printed none.  In both cases the messages of the cycle are kept.
C27_NoticeIffCeiling ==
  \A h \in Handlers :
     pc[h] = "done" =>
        /\ notice[h] <=> outcome[h] = "ceiling"
        /\ outcome[h] \in {"stop", "ceiling"} =>
              /\ asstIdx[h] <= Len(messages)
              /\ messages[asstIdx[h]].role = "assistant"

\* The part of C27 that the code keeps: a cycle that ends at the ceiling
\* prints the notice, a cycle of fewer than five turns prints none, and the
\* messages are kept.
C27_HoldsBelowFiveTurns ==
  \A h \in Handlers :
     pc[h] = "done" =>
        /\ outcome[h] = "ceiling" => notice[h]
        /\ (outcome[h] = "stop" /\ nreq[h] < maxIterations) => ~notice[h]
        /\ outcome[h] \in {"stop", "ceiling"} =>
              /\ asstIdx[h] <= Len(messages)
              /\ messages[asstIdx[h]].role = "assistant"

\* A cycle has ended at the ceiling with the notice
C27_CeilingNotice ==
  \E h \in Handlers : pc[h] = "done" /\ outcome[h] = "ceiling" /\ notice[h] /\ nreq[h] = 5

\* ------------------------------------------------------------------------
\* C28: classification of an input line
\* ------------------------------------------------------------------------

Blanks(n) == [k \in 1..n |-> " "]

\* The text of a line without the spaces around it
Stripped(input) ==
  CHOOSE t \in {SubSeq(input, i, j) : i \in 1..(Len(input) + 1), j \in 0..Len(input)} :
     /\ t = <<>> \/ (t[1] # " " /\ t[Len(t)] # " ")
     /\ \E a, b \in 0..Len(input) : input = Blanks(a) \o t \o Blanks(b)

Capital(c) ==
  CASE c = "e" -> "E" [] c = "x" -> "X" [] c = "i" -> "I" [] c = "t" -> "T"
    [] c = "q" -> "Q" [] c = "u" -> "U"

\* t is the word w in some letter case
AnyCase(t, w) ==
  /\ Len(t) = Len(w)
  /\ \A k \in 1..Len(w) : t[k] \in {w[k], Capital(w[k])}

\* C28: every input line is classified by its trimmed text.  exit or quit in
\* any letter case ends the session: no message is appended and no model
\* request is made.  An empty line appends nothing and makes no model request,
\* and the session goes on.  Any other line appends exactly one user message
\* whose content is the trimmed text, and the model request that follows
\* already holds it.
C28_LineClassified ==
  [][\A h \in Handlers : \A input \in Inputs :
        Line(h, input) =>
          \E t \in {Stripped(input)} :
            IF AnyCase(t, s_exit) \/ AnyCase(t, s_quit)
            THEN /\ exited'
                 /\ messages' = messages
                 /\ nreq'[h] = 0
                 /\ pc'[h] = "done"
            ELSE IF t = <<>>
            THEN /\ ~exited'
                 /\ messages' = messages
                 /\ nreq'[h] = 0
                 /\ pc'[h] = "done"
            ELSE /\ ~exited'
                 /\ Len(messages') = Len(messages) + 1
                 /\ SubSeq(messages', 1, Len(messages)) = messages
                 /\ messages'[Len(messages')].role = "user"
                 /\ messages'[Len(messages')].content = t
                 /\ nreq'[h] = 1
                 /\ sentLen'[h] = Len(messages')
                 /\ pc'[h] = "stream"]_vars

\* A request line was answered and the next line ended the session
C28_Witness ==
  \E h, g \in Handlers :
     /\ outcome[h] = "stop"
     /\ outcome[g] = "exit"
     /\ exited
     /\ \E i \in 1..Len(messages) : messages[i].role = "user" /\ messages[i].content = s_hi

\* An empty line was passed over and the session went on
C28_EmptyLineSkipped ==
  \E h, g \in Handlers : outcome[h] = "empty" /\ pc[g] = "stream" /\ ~exited

\* ------------------------------------------------------------------------
\* lib/update-checker.js
\* ------------------------------------------------------------------------

UPDATE_CHECK_INTERVAL == 24 * 60 * 60 * 1000

v0_1_0 == <<"0", ".", "1", ".", "0">>
v0_3_4 == <<"0", ".", "3", ".", "4">>
v0_10_0 == <<"0", ".", "1", "0", ".", "0">>

\* String.prototype.split(sep) for a one-character separator
RECURSIVE split(_, _)
split(s, sep) ==
  IF \A i \in 1..Len(s) : s[i] # sep
  THEN <<s>>
  ELSE LET i == CHOOSE k \in 1..Len(s) : s[k] = sep /\ \A j \in 1..(k - 1) : s[j] # sep
       IN  <<SubSeq(s, 1, i - 1)>> \o split(SubSeq(s, i + 1, Len(s)), sep)

DigitValue(c) ==
  CASE c = "0" -> 0 [] c = "1" -> 1 [] c = "2" -> 2 [] c = "3" -> 3 [] c = "4" -> 4
    [] c = "5" -> 5 [] c = "6" -> 6 [] c = "7" -> 7 [] c = "8" -> 8 [] c = "9" -> 9

IsDigit(c) == c \in {"0", "1", "2", "3", "4", "5", "6", "7", "8", "9"}

RECURSIVE DecimalValue(_)
DecimalValue(s) ==
  IF s = <<>> THEN 0
  ELSE 10 * DecimalValue(SubSeq(s, 1, Len(s) - 1)) + DigitValue(s[Len(s)])

\* Number with the digits compared as text: only the first digit counts
NumberAsText(s) ==
  IF \A i \in 1..Len(s) : IsDigit(s[i])
  THEN [nan |-> FALSE, val |-> IF s = <<>> THEN 0 ELSE DigitValue(s[1])]
  ELSE [nan |-> TRUE, val |-> 0]

\* Number(s): the value of a string of digits, 0 for the empty string and
\* NaN for any other string
Number(s) ==
  IF \A i \in 1..Len(s) : IsDigit(s[i])
  THEN [nan |-> FALSE, val |-> DecimalValue(s)]
  ELSE [nan |-> TRUE, val |-> 0]

\* v.split('.').map(Number)
Parts(v) == [i \in 1..Len(split(v, ".")) |-> Number(split(v, ".")[i])]

\* parts[i] || 0, with i counted from 1
PartOrZero(parts, i) ==
  IF i > Len(parts) \/ parts[i].nan THEN 0 ELSE parts[i].val

RECURSIVE CompareFrom(_, _, _)
CompareFrom(parts1, parts2, i) ==
  IF i > Len(parts1) /\ i > Len(parts2) THEN 0
  ELSE IF PartOrZero(parts1, i) > PartOrZero(parts2, i) THEN 1
  ELSE IF PartOrZero(parts1, i) < PartOrZero(parts2, i) THEN -1
  ELSE CompareFrom(parts1, parts2, i + 1)

compareVersions(v1, v2) == CompareFrom(Parts(v1), Parts(v2), 1)

\* The configuration that loadUpdateConfig falls back on
DefaultUpdateConfig == [lastCheckTime |-> 0, skippedVersions |-> <<>>]

\* update-config.json: missing, unparsable, unreadable (readFileSync throws),
\* or holding the JSON text of a configuration, kept here as the value
\* JSON.parse gives for it
StoredConfig(cfg) == [state |-> "stored", value |-> cfg]
MissingFile == [state |-> "missing", value |-> DefaultUpdateConfig]
CorruptFile == [state |-> "corrupt", value |-> DefaultUpdateConfig]
UnreadableFile == [state |-> "unreadable", value |-> DefaultUpdateConfig]

loadUpdateConfig(file) ==
  IF file.state = "stored" THEN file.value ELSE DefaultUpdateConfig

\* writeFileSync fails where the file cannot be written; the error is dropped
saveUpdateConfig(file, writable, cfg) ==
  IF writable THEN StoredConfig(cfg) ELSE file

\* A check that never finds the version among the skipped ones
includesNever(arr, v) == FALSE

\* Array.prototype.includes on skippedVersions
includes(arr, v) == \E i \in 1..Len(arr) : arr[i] = v

WasSkipped(cfg, latestVersion) == includes(cfg.skippedVersions, latestVersion)

s_y == <<"y">>
s_yes == <<"y", "e", "s">>
s_skip == <<"s", "k", "i", "p">>
s_s == <<"s">>

\* The decision promptUpdate resolves with for an answer
promptUpdate(answer) ==
  LET response == ToLowerCase(Trim(answer))
  IN  IF response = s_y \/ response = s_yes THEN "update"
      ELSE IF response = s_skip \/ response = s_s THEN "skip"
      ELSE "later"

\* The interval test that takes no account of force
CheckedRecentlyDespiteForce(force, time, cfg) ==
  (time - cfg.lastCheckTime) < UPDATE_CHECK_INTERVAL

\* !force && (now - config.lastCheckTime) < UPDATE_CHECK_INTERVAL
CheckedRecently(force, time, cfg) ==
  ~force /\ (time - cfg.lastCheckTime) < UPDATE_CHECK_INTERVAL

\* What one call of checkForUpdates has done: the file it leaves, whether the
\* registry was asked, the version announced by the notice or the prompt
\* (<<>> for none), whether the user was prompted, the decision, whether the
\* npm update was spawned, and whether an error left the call
Done(file, cfg, fetched, announced, prompted, decision, spawned) ==
  [file |-> file, loaded |-> cfg, fetched |-> fetched, announced |-> announced,
   prompted |-> prompted, decision |-> decision, spawned |-> spawned, raised |-> FALSE,
   caught |-> FALSE]

\* An error is thrown inside the try block of checkForUpdates, after the
\* registry was asked
Thrown(file, cfg) ==
  [Done(file, cfg, TRUE, <<>>, FALSE, "none", FALSE) EXCEPT !.raised = TRUE]

\* catch (error) { }: the error is dropped and the call resolves
Catch(r) == IF r.raised THEN [r EXCEPT !.raised = FALSE, !.caught = TRUE] ELSE r

\* The try block of checkForUpdates(currentVersion, packageName, {force,
\* silent, fetchLatestVersion}) run at time `time` over the file, where the
\* registry answers `fetch` and the user, if asked, answers `answer`.  A
\* rejected fetch throws at the await; a response without a version resolves
\* with undefined, on which compareVersions throws a TypeError.
TryCheckForUpdates(file, writable, interactive, time, currentVersion, force, silent, fetch, answer) ==
  LET loaded == loadUpdateConfig(file)
      stamped == [loaded EXCEPT !.lastCheckTime = time]
      file1 == saveUpdateConfig(file, writable, stamped)
      decision == promptUpdate(answer)
      skipping == [stamped EXCEPT !.skippedVersions = Append(@, fetch.version)]
  IN  IF CheckedRecently(force, time, loaded)
      THEN Done(file, loaded, FALSE, <<>>, FALSE, "none", FALSE)
      ELSE IF fetch.rejected \/ ~fetch.hasVersion
      THEN Thrown(file1, loaded)
      ELSE IF compareVersions(fetch.version, currentVersion) <= 0
      THEN Done(file1, loaded, TRUE, <<>>, FALSE, "none", FALSE)
      ELSE IF WasSkipped(stamped, fetch.version)
      THEN Done(file1, loaded, TRUE, <<>>, FALSE, "none", FALSE)
      ELSE IF silent \/ ~interactive
      THEN Done(file1, loaded, TRUE, fetch.version, FALSE, "none", FALSE)
      ELSE IF decision = "update"
      THEN Done(file1, loaded, TRUE, fetch.version, TRUE, decision, TRUE)
      ELSE IF decision = "skip"
      THEN Done(IF ~includes(stamped.skippedVersions, fetch.version)
                THEN saveUpdateConfig(file1, writable, skipping) ELSE file1,
                loaded, TRUE, fetch.version, TRUE, decision, FALSE)
      ELSE Done(file1, loaded, TRUE, fetch.version, TRUE, decision, FALSE)

\* The call without its catch block
checkForUpdatesUncaught(file, writable, interactive, time, currentVersion, force, silent, fetch, answer) ==
  TryCheckForUpdates(file, writable, interactive, time, currentVersion, force, silent,
                     fetch, answer)

checkForUpdates(file, writable, interactive, time, currentVersion, force, silent, fetch, answer) ==
  Catch(TryCheckForUpdates(file, writable, interactive, time, currentVersion, force, silent,
                           fetch, answer))

\* Date.now() when the program starts: more than a day after the epoch
StartTime == UPDATE_CHECK_INTERVAL

\* What the registry can answer
Fetches ==
  {[rejected |-> FALSE, hasVersion |-> TRUE, version |-> v] : v \in {v0_3_4, v0_10_0}}
    \cup {[rejected |-> TRUE, hasVersion |-> FALSE, version |-> <<>>],
          [rejected |-> FALSE, hasVersion |-> FALSE, version |-> <<>>]}

\* What the user can answer to the prompt
PromptAnswers == {s_y, <<"S", "k", "i", "p", " ">>, <<>>}

\* The files the checker can find when it is first run
InitialFiles ==
  {MissingFile, CorruptFile, UnreadableFile,
   StoredConfig([lastCheckTime |-> 0, skippedVersions |-> <<v0_10_0>>]),
   StoredConfig([lastCheckTime |-> StartTime - 1, skippedVersions |-> <<>>])}

UpdaterInit ==
  /\ IdleChat
  /\ detector = <<>>
  /\ updater \in [file : InitialFiles, writable : BOOLEAN, interactive : BOOLEAN,
                  time : {StartTime}, currentVersion : {v0_1_0, v0_3_4},
                  checks : {0}, waits : {0}, skipped : {{}},
                  call : {<<>>}, last : {<<>>}]

UpdaterStep(next) ==
  /\ updater' = next
  /\ UNCHANGED <<sessionVars, handlerVars>>
  /\ UNCHANGED <<maskIn, maskOut, maskDone, callOp, callIn, callOut, callDone, detector>>

\* The clock moves on between two runs of the program
Wait(d) ==
  /\ updater.waits < MaxWaits
  /\ UpdaterStep([updater EXCEPT !.time = @ + d, !.waits = @ + 1])

\* One run of checkForUpdates.  `skipped` collects the versions the user has
\* answered skip to; `call` keeps the call's arguments and the file it found.
\* There is an answer only where the prompt can be shown.
CheckForUpdates(force, silent, fetch, answer) ==
  /\ updater.checks < MaxChecks
  /\ (silent \/ ~updater.interactive) => answer = <<>>
  /\ \E r \in {checkForUpdates(updater.file, updater.writable, updater.interactive,
                               updater.time, updater.currentVersion, force, silent,
                               fetch, answer)} :
       UpdaterStep([updater EXCEPT
                      !.file = r.file,
                      !.checks = @ + 1,
                      !.skipped = IF r.decision = "skip" THEN @ \cup {fetch.version} ELSE @,
                      !.call = [force |-> force, silent |-> silent, fetch |-> fetch,
                                time |-> updater.time, before |-> updater.file,
                                skippedBefore |-> updater.skipped],
                      !.last = r])

UpdaterNext ==
  \/ \E d \in {1, UPDATE_CHECK_INTERVAL - 1} : Wait(d)
  \/ \E force, silent \in BOOLEAN, fetch \in Fetches, answer \in PromptAnswers :
        CheckForUpdates(force, silent, fetch, answer)

UpdaterSpec == UpdaterInit /\ [][UpdaterNext]_vars

\* ------------------------------------------------------------------------
\* C29, C30: the update check
\* ------------------------------------------------------------------------

Checked == updater.checks > 0

\* The latest check found a stored lastCheckTime less than 24 hours old
WithinInterval ==
  /\ updater.call.before.state = "stored"
  /\ updater.call.time - updater.call.before.value.lastCheckTime < 24 * 60 * 60 * 1000

\* C29: a check that is not forced and runs less than 24 hours after the
\* stored lastCheckTime returns without asking the registry, without a notice
\* or a prompt, and leaves the stored update configuration as it was; a forced
\* check asks the registry whatever the stored time.
C29_RecentCheckSkipped ==
  Checked =>
    /\ (~updater.call.force /\ WithinInterval) =>
          /\ ~updater.last.fetched
          /\ updater.last.announced = <<>>
          /\ ~updater.last.prompted
          /\ updater.file = updater.call.before
    /\ updater.call.force => updater.last.fetched

\* A second check, not forced, has returned early on the time the first stored
C29_Witness ==
  /\ updater.checks = 2
  /\ ~updater.call.force
  /\ WithinInterval
  /\ updater.call.before.value.lastCheckTime >= StartTime
  /\ ~updater.last.fetched
  /\ updater.file = updater.call.before

\* A forced check has asked the registry within the interval
C29_ForcedWithinInterval ==
  Checked /\ updater.call.force /\ WithinInterval /\ updater.last.fetched

Listed(list, v) == \E i \in DOMAIN list : list[i] = v

\* The version the registry offered at the latest check had been skipped: it
\* stood in the stored skippedVersions or the user had answered skip to it
OfferSkipped ==
  \/ updater.call.fetch.version \in updater.call.skippedBefore
  \/ /\ updater.call.before.state = "stored"
     /\ Listed(updater.call.before.value.skippedVersions, updater.call.fetch.version)

\* The latest check asked the registry and was offered a version newer than
\* the current one
OfferNewer ==
  /\ updater.last.fetched
  /\ ~updater.call.fetch.rejected
  /\ compareVersions(updater.call.fetch.version, updater.currentVersion) > 0

SkipRules ==
  Checked =>
    /\ OfferSkipped => (updater.last.announced = <<>> /\ ~updater.last.prompted)
    /\ (OfferNewer /\ ~OfferSkipped) =>
          updater.last.announced = updater.call.fetch.version
    /\ updater.last.decision = "skip" =>
          /\ updater.file.state = "stored"
          /\ updater.file.value.skippedVersions
               = Append(updater.last.loaded.skippedVersions, updater.call.fetch.version)
          /\ \A i, j \in DOMAIN updater.file.value.skippedVersions :
                updater.file.value.skippedVersions[i] = updater.file.value.skippedVersions[j]
                  => i = j
    /\ updater.last.decision = "later" =>
          loadUpdateConfig(updater.file).skippedVersions
            = loadUpdateConfig(updater.call.before).skippedVersions

C31_ErrorsCaught ==
  Checked =>
    /\ ~updater.last.raised
    /\ updater.last.caught =>
          /\ updater.last.announced = <<>>
          /\ ~updater.last.prompted
          /\ ~updater.last.spawned

\* The registry rejected the request of a check over a file that can be
\* neither parsed nor written, and the call resolved
C31_Witness ==
  /\ Checked
  /\ updater.call.fetch.rejected
  /\ updater.call.before.state = "corrupt"
  /\ ~updater.writable
  /\ updater.last.caught
  /\ ~updater.last.raised

\* The registry answered without a version, over an unreadable file
C31_MalformedResponseCaught ==
  /\ Checked
  /\ ~updater.call.fetch.rejected
  /\ ~updater.call.fetch.hasVersion
  /\ updater.call.before.state = "unreadable"
  /\ updater.last.caught

\* ------------------------------------------------------------------------
\* C32: compareVersions
\* ------------------------------------------------------------------------

v0_3_9 == <<"0", ".", "3", ".", "9">>
v0_3_10 == <<"0", ".", "3", ".", "1", "0">>
v0_3_0 == <<"0", ".", "3", ".", "0">>
v0_3_0_beta_1 == <<"0", ".", "3", ".", "0", "-", "b", "e", "t", "a", ".", "1">>
v0_3_0_beta_0 == <<"0", ".", "3", ".", "0", "-", "b", "e", "t", "a", ".", "0">>

VersionComponents == {<<"0">>, <<"9">>, <<"1", "0">>}

RECURSIVE Dotted(_)
Dotted(comps) ==
  IF Len(comps) = 1 THEN comps[1] ELSE comps[1] \o <<".">> \o Dotted(Tail(comps))

\* The versions compared: every version of up to MaxParts components, the
\* versions of the tests, and pre-release versions of the package
VersionInputs ==
  {Dotted(c) : c \in UNION {[1..n -> VersionComponents] : n \in 1..MaxParts}}
    \cup {v0_3_4, v0_3_9, v0_3_10, v0_3_0, v0_3_0_beta_1, v0_3_0_beta_0}

CompareInit ==
  /\ IdleSession
  /\ NoStartup
  /\ callOp = "compareVersions"
  /\ callIn \in [v1 : VersionInputs, v2 : VersionInputs]
  /\ callOut = <<>>
  /\ callDone = FALSE

\* compareVersions(v1, v2) and, for the same pair, compareVersions(v2, v1)
CompareApply ==
  Returns("compareVersions",
          [result |-> compareVersions(callIn.v1, callIn.v2),
           reverse |-> compareVersions(callIn.v2, callIn.v1)])

CompareNext == CompareApply

CompareSpec == CompareInit /\ [][CompareNext]_vars

\* The i-th dotted component of v as text, "0" where v has none
ComponentText(v, i) == IF i <= Len(split(v, ".")) THEN split(v, ".")[i] ELSE <<"0">>

Numeric(text) == text # <<>> /\ \A k \in 1..Len(text) : IsDigit(text[k])

AllNumeric(v) == \A i \in 1..Len(split(v, ".")) : Numeric(split(v, ".")[i])

Width(v1, v2) ==
  IF Len(split(v1, ".")) >= Len(split(v2, ".")) THEN Len(split(v1, ".")) ELSE Len(split(v2, "."))

\* Two components are equal: as numbers where both are numbers, as text otherwise
SameComponent(a, b) ==
  IF Numeric(a) /\ Numeric(b) THEN DecimalValue(a) = DecimalValue(b) ELSE a = b

\* v1 is greater at the first component from the left where the two differ
GreaterAtFirstDifference(v1, v2) ==
  \E i \in 1..Width(v1, v2) :
     /\ \A j \in 1..(i - 1) : SameComponent(ComponentText(v1, j), ComponentText(v2, j))
     /\ DecimalValue(ComponentText(v1, i)) > DecimalValue(ComponentText(v2, i))

VersionRules(v1, v2, result, reverse) ==
  /\ result \in {1, -1, 0}
  /\ result = 0 <=>
        \A i \in 1..Width(v1, v2) : SameComponent(ComponentText(v1, i), ComponentText(v2, i))
  /\ (AllNumeric(v1) /\ AllNumeric(v2)) =>
        /\ result = 1 <=> GreaterAtFirstDifference(v1, v2)
        /\ result = -1 <=> GreaterAtFirstDifference(v2, v1)
  /\ result = 0 - reverse

\* C32: compareVersions returns 1, -1 or 0; it returns 0 exactly when all
\* components are equal, a missing component counting as 0; it decides at the
\* first component from the left that differs, compared as numbers; and
\* compareVersions(a, b) = -compareVersions(b, a).
C32_ComponentwiseNumeric ==
  callDone => VersionRules(callIn.v1, callIn.v2, callOut.result, callOut.reverse)

\* The same for versions whose components are all decimal numbers
C32_HoldsOnNumericVersions ==
  (callDone /\ AllNumeric(callIn.v1) /\ AllNumeric(callIn.v2)) =>
     VersionRules(callIn.v1, callIn.v2, callOut.result, callOut.reverse)

\* 0.3.10 was found greater than 0.3.9
C32_TenGreaterThanNine ==
  callDone /\ callIn.v1 = v0_3_10 /\ callIn.v2 = v0_3_9 /\ callOut.result = 1

\* ------------------------------------------------------------------------
\* C33, C35: name and id of an OpenAI tool-call slot
\* ------------------------------------------------------------------------

\* The deltas of one slot: the name cut into fragments, the id in the p-th
\* delta, the arguments in the last
NameDeltas(frags, p) ==
  [i \in 1..Len(frags) |->
     Delta(0, (IF i = p THEN s_call_a ELSE <<>>), frags[i],
              (IF i = Len(frags) THEN ArgsGetAll ELSE <<>>))]

NameInputs ==
  {[name |-> s_get_config, id |-> s_call_a, idAt |-> p,
    stream |-> DeltaStream(NameDeltas(Fragments(s_get_config, c), p))] :
     c \in Cuts(Len(s_get_config), MaxFragments), p \in 1..MaxFragments}

NameInit ==
  /\ IdleSession
  /\ NoStartup
  /\ callOp = "accumulate"
  /\ callIn \in NameInputs
  /\ callOut = <<>>
  /\ callDone = FALSE

NameApply ==
  Returns("accumulate", ConsumeStream("openai", TurnStart, callIn.stream, 0).toolCalls)

NameNext == NameApply

NameSpec == NameInit /\ [][NameNext]_vars

Accumulated == callOp = "accumulate" /\ callDone

\* The name fragments the backend sent for a slot, joined in arrival order
SentSlotName(stream, index) ==
  LET ds == SelectSeq(SentDeltas(stream), LAMBDA d : d.index = index)
  IN  Concat([i \in 1..Len(ds) |-> ds[i].name])

\* The first delta of slot 0 in the stream
FirstDelta == SentDeltas(callIn.stream)[1]

\* C33: the name accumulated for a slot is the concatenation, in arrival
\* order, of the name fragments delivered for it; a name delivered whole in
\* the first delta is recorded once.
C33_NameReassembled ==
  Accumulated =>
     /\ Len(callOut) = 1
     /\ callOut[1].name = SentSlotName(callIn.stream, 0)
     /\ callOut[1].name = callIn.name

\* The part of C33 the code keeps: the name is right where the first delta
\* of the slot carries no name
C33_HoldsWhenNameFollows ==
  (Accumulated /\ FirstDelta.name = <<>>) =>
     /\ Len(callOut) = 1
     /\ callOut[1].name = SentSlotName(callIn.stream, 0)
     /\ callOut[1].name = callIn.name

\* A name sent in two fragments after a first delta without name was joined
C33_NameJoined ==
  /\ Accumulated
  /\ FirstDelta.name = <<>>
  /\ \A i \in 2..MaxFragments : SentDeltas(callIn.stream)[i].name # <<>>
  /\ callOut[1].name = s_get_config

\* C35: the id recorded for a slot is the id the backend delivered for it,
\* whichever delta of the slot carries it.
C35_IdRecorded ==
  Accumulated => callOut[1].id = callIn.id

\* The part of C35 the code keeps: the id is recorded where the first delta
\* carries it
C35_HoldsWhenIdFirst ==
  (Accumulated /\ callIn.idAt = 1) => callOut[1].id = callIn.id

\* An id carried by the first delta was recorded
C35_IdFirstRecorded ==
  Accumulated /\ callIn.idAt = 1 /\ FirstDelta.id = s_call_a /\ callOut[1].id = s_call_a

\* ------------------------------------------------------------------------
\* C34: the argument buffer of an Anthropic tool_use block
\* ------------------------------------------------------------------------

\* A tool_use block whose input JSON arrives in the given fragments
BlockStream(frags) ==
  <<ToolUseStart(s_toolu, s_get_config)>>
    \o [i \in 1..Len(frags) |-> InputJsonDelta(frags[i])]
    \o <<MessageStop>>

BlockInputs ==
  {[input |-> ArgsGetKey, stream |-> BlockStream(Fragments(ArgsGetKey, c))] :
     c \in Cuts(Len(ArgsGetKey), MaxFragments)}

BlockInit ==
  /\ IdleSession
  /\ NoStartup
  /\ callOp = "blocks"
  /\ callIn \in BlockInputs
  /\ callOut = <<>>
  /\ callDone = FALSE

BlockApply ==
  Returns("blocks", ConsumeStream("anthropic", TurnStart, callIn.stream, 0).toolCalls)

BlockNext == BlockApply

BlockSpec == BlockInit /\ [][BlockNext]_vars

\* C34: at the stream-stop frame the argument buffer of a call equals the
\* concatenation, in arrival order, of the input_json_delta frames delivered
\* after its tool-use start frame.
C34_BlockInputAppended ==
  (callOp = "blocks" /\ callDone) =>
     /\ Len(callOut) = 1
     /\ callOut[1].arguments = SentBlockInput(callIn.stream, 1)
     /\ callOut[1].arguments = callIn.input

\* The part of C34 the code keeps: the start frame opens one call with the
\* id and name it carries
C34_BlockOpened ==
  (callOp = "blocks" /\ callDone) =>
     /\ Len(callOut) = 1
     /\ callOut[1].id = s_toolu
     /\ callOut[1].name = s_get_config

\* A block whose input came in MaxFragments non-empty fragments was consumed
C34_FragmentsDelivered ==
  /\ callOp = "blocks" /\ callDone
  /\ \A i \in 2..(MaxFragments + 1) : callIn.stream[i].partial_json # <<>>
  /\ Len(callOut) = 1

\* ------------------------------------------------------------------------
\* C36: start_gateway and stop_gateway
\* ------------------------------------------------------------------------

ToolCalled(name) ==
  callOp = "executeTool" /\ callDone /\ callIn.toolName = name /\ ~callIn.args.null

Succeeded(r) == \E i \in 1..Len(r) : r[i].k = s_success /\ r[i].v = s_true

\* C36: start_gateway does not call start while the gateway reports running,
\* and stop_gateway does not call stop while it reports not running; in both
\* cases the tool answers success false and changes nothing.  stop_gateway
\* answers success true only where the gateway reports not running after
\* the stop.
C36_NoRedundantStartStop ==
  /\ (ToolCalled(ToolText.start_gateway) /\ callIn.cfg.running) =>
        /\ callOut.called = "none"
        /\ ~Succeeded(callOut.result)
        /\ callOut.cfg = callIn.cfg
  /\ (ToolCalled(ToolText.stop_gateway) /\ ~callIn.cfg.running) =>
        /\ callOut.called = "none"
        /\ ~Succeeded(callOut.result)
        /\ callOut.cfg = callIn.cfg
  /\ (ToolCalled(ToolText.stop_gateway) /\ Succeeded(callOut.result)) =>
        /\ callOut.called = "stop"
        /\ ~callOut.cfg.running

\* start_gateway was asked of a running gateway and refused
C36_Witness ==
  /\ ToolCalled(ToolText.start_gateway)
  /\ callIn.cfg.running
  /\ callOut.called = "none"
  /\ ~Succeeded(callOut.result)

\* stop_gateway stopped a running gateway and reported it
C36_Stopped ==
  /\ ToolCalled(ToolText.stop_gateway)
  /\ callIn.cfg.running
  /\ callOut.called = "stop"
  /\ Succeeded(callOut.result)
  /\ ~callOut.cfg.running

\* stop_gateway found the gateway still running after the stop
C36_StillRunning ==
  /\ ToolCalled(ToolText.stop_gateway)
  /\ callOut.called = "stop"
  /\ callOut.cfg.running
  /\ ~Succeeded(callOut.result)

\* ------------------------------------------------------------------------
\* lib/binary.js: downloadBinary
\* ------------------------------------------------------------------------

\* retries = 3 where the argument is left out
DefaultRetries == 3

\* What one attempt (request, pipeline to the file, chmod) ends with: "ok"
\* or the error it throws
AttemptOutcomes == {"ok", "ETIMEDOUT", "status 404", "EACCES"}

\* The loop from `attempt` on: the attempts made and the error thrown, "" for none
RECURSIVE DownloadFrom(_, _, _)
DownloadFrom(attempt, retries, outcomes) ==
  IF attempt > retries
  THEN [attempts |-> attempt - 1, raised |-> FALSE, error |-> ""]
  ELSE IF outcomes[attempt] = "ok"
  THEN [attempts |-> attempt, raised |-> FALSE, error |-> ""]
  ELSE IF attempt < retries
  THEN DownloadFrom(attempt + 1, retries, outcomes)
  ELSE [attempts |-> attempt, raised |-> TRUE, error |-> outcomes[attempt]]

\* A loop that throws the first error instead of trying again
downloadBinaryOnce(retries, outcomes) ==
  IF retries < 1 THEN [attempts |-> 0, raised |-> FALSE, error |-> ""]
  ELSE IF outcomes[1] = "ok" THEN [attempts |-> 1, raised |-> FALSE, error |-> ""]
  ELSE [attempts |-> 1, raised |-> TRUE, error |-> outcomes[1]]

\* downloadBinary(url, targetPath, retries), where the i-th attempt, if made,
\* ends as outcomes[i]
downloadBinary(retries, outcomes) == DownloadFrom(1, retries, outcomes)

DownloadInputs ==
  [retries : 0..MaxRetries, given : BOOLEAN, outcomes : [1..MaxRetries -> AttemptOutcomes]]

DownloadInit ==
  /\ IdleSession
  /\ NoStartup
  /\ callOp = "downloadBinary"
  /\ callIn \in {i \in DownloadInputs : ~i.given => i.retries = DefaultRetries}
  /\ callOut = <<>>
  /\ callDone = FALSE

DownloadApply ==
  Returns("downloadBinary", downloadBinary(callIn.retries, callIn.outcomes))

DownloadNext == DownloadApply

DownloadSpec == DownloadInit /\ [][DownloadNext]_vars

Downloaded == callOp = "downloadBinary" /\ callDone

\* The attempts the call was allowed
Allowed == 1..callIn.retries

RetryRules ==
  /\ callOut.attempts <= callIn.retries
  /\ \A i \in 1..(callOut.attempts - 1) : callIn.outcomes[i] # "ok"
  /\ callOut.raised <=> \A i \in Allowed : callIn.outcomes[i] # "ok"
  /\ callOut.raised =>
        /\ callOut.attempts = callIn.retries
        /\ callOut.error = callIn.outcomes[callIn.retries]
  /\ ~callOut.raised => callOut.attempts = 0 \/ callIn.outcomes[callOut.attempts] = "ok"

\* C37 as stated: at most `retries` attempts are made (3 where the argument
\* is left out), none after the first that succeeds, and an error is raised
\* if and only if every attempt allowed has failed, the error of the last one.
C37_RetriesThenLastError == Downloaded => RetryRules

\* C37 for retries of at least 1
C37_HoldsForPositiveRetries == (Downloaded /\ callIn.retries >= 1) => RetryRules

\* With the default of three attempts, two failed and the third succeeded
C37_Witness ==
  /\ Downloaded
  /\ ~callIn.given
  /\ callIn.outcomes[1] # "ok" /\ callIn.outcomes[2] # "ok" /\ callIn.outcomes[3] = "ok"
  /\ callOut.attempts = 3
  /\ ~callOut.raised

\* Every attempt failed and the error of the last one was raised
C37_LastErrorRaised ==
  /\ Downloaded
  /\ callIn.retries = 3
  /\ callIn.outcomes[1] # callIn.outcomes[3]
  /\ callOut.raised
  /\ callOut.error = callIn.outcomes[3]

\* ------------------------------------------------------------------------
\* C38: overlapping calls of Gateway.setConfig
\* ------------------------------------------------------------------------

SetCalls == [key : {s_api_key, s_port, s_key}, value : {s_sk_new, s_value}]

\* Two calls of setConfig on the same gateway.ini.  callIn keeps their
\* arguments and the file as it was; callOut keeps, for each call, where it
\* stands ("start", "read", "done" or "threw") and the config it has read.
SetInit ==
  /\ IdleSession
  /\ NoStartup
  /\ callOp = "setConfig"
  /\ callIn \in [calls : [1..2 -> SetCalls], before : {config.kv}]
  /\ callOut = [pc |-> <<"start", "start">>, read |-> <<<<>>, <<>>>>, overlapped |-> FALSE]
  /\ callDone = FALSE

SetStep(out) ==
  /\ callOp = "setConfig"
  /\ callOut' = out
  /\ callDone' = \A q \in 1..2 : out.pc[q] \in {"done", "threw"}
  /\ UNCHANGED <<callOp, callIn, maskIn, maskOut, maskDone, detector, updater, handlerVars>>
  /\ UNCHANGED <<endpointType, messages, exited, typeAhead, now, toolTurns, secrets>>

\* setConfig up to its await: existsSync, then listConfig reads and parses
\* the file
SetConfigRead(p) ==
  /\ callOp = "setConfig"
  /\ callOut.pc[p] = "start"
  /\ \E l \in {listConfig(config)} :
       SetStep(IF l.throws
               THEN [callOut EXCEPT !.pc[p] = "threw"]
               ELSE [callOut EXCEPT !.pc[p] = "read", !.read[p] = l.config,
                                    !.overlapped = @ \/ callOut.pc[3 - p] = "read"])
  /\ UNCHANGED config

\* setConfig after its await: config[key] = value, stringify, writeFileSync
SetConfigWrite(p) ==
  /\ callOp = "setConfig"
  /\ callOut.pc[p] = "read"
  /\ config' = [config EXCEPT !.kv = Put(callOut.read[p], callIn.calls[p].key,
                                         callIn.calls[p].value)]
  /\ SetStep([callOut EXCEPT !.pc[p] = "done"])

SetNext == \E p \in 1..2 : SetConfigRead(p) \/ SetConfigWrite(p)

SetSpec == SetInit /\ [][SetNext]_vars

BothSet == callOp = "setConfig" /\ callDone

Stored(kv, key) == IF Has(kv, key) THEN Get(kv, key) ELSE <<>>

SetRules ==
  /\ \A k \in {s_api_key, s_port, s_key} :
        (\A p \in 1..2 : callIn.calls[p].key # k) =>
           Stored(config.kv, k) = Stored(callIn.before, k)
  /\ callIn.calls[1].key # callIn.calls[2].key =>
        \A p \in 1..2 : Stored(config.kv, callIn.calls[p].key) = callIn.calls[p].value

\* C38: once both calls have completed, every key that neither call was
\* given keeps its stored value, and where the two calls were given different
\* keys both keys hold the values written, in every interleaving of the
\* calls' read and write steps.
C38_NoLostUpdate == BothSet => SetRules

\* The part of C38 the code keeps: the same where neither call read the file
\* between the read and the write of the other
C38_HoldsWithoutOverlap == (BothSet /\ ~callOut.overlapped) => SetRules

\* Two calls for different keys ran one after the other and both values are stored
C38_BothStoredInTurn ==
  /\ BothSet
  /\ ~callOut.overlapped
  /\ callIn.calls[1].key = s_port /\ callIn.calls[2].key = s_api_key
  /\ Stored(config.kv, s_port) = callIn.calls[1].value
  /\ Stored(config.kv, s_api_key) = callIn.calls[2].value

====
